---- MODULE Spec2Model ----
(***************************************************************************)
(* Voter geocoding pipeline of scripts/geocoding.py: the address           *)
(* normalizer enhanced_clean and the exact-match geocoder                  *)
(* ultra_fast_geocode_county.                                              *)
(*                                                                         *)
(* Text is a sequence of one-character strings.  A cell of a data frame is *)
(* a record [na |-> BOOLEAN, text |-> characters]: na is what pd.isna sees *)
(* (NaN / None), and text is what str() makes of the cell.                 *)
(***************************************************************************)
EXTENDS Integers, Sequences, FiniteSets, TLC

VARIABLES
    \* ---- normalizer harness: one cell put through enhanced_clean twice
    addr,           \* the cell enhanced_clean is called on
    once,           \* enhanced_clean(addr)
    twice,          \* enhanced_clean(enhanced_clean(addr))
    npc,            \* "idle" | "start" | "cleaned" | "recleaned"
    \* ---- ultra_fast_geocode_county
    voter_file,     \* rows of the tab-separated voter file
    addresses,      \* the address layer: [columns, rows, crs]
    pc,             \* position in ultra_fast_geocode_county
    voters,         \* frame read from voter_file
    active_voters,  \* voters with status ACTIVE (later with clean_address)
    addr_col,       \* <<name>> once the address column is chosen, else <<>>
    ref_clean,      \* addresses['clean_address'], one key per reference row
    idx,            \* row the running loop is at
    addr_lookup,    \* dict as its entries in insertion order
    matches,        \* list of matched voter dicts
    matched_count,
    written,        \* files written to output_dir
    success_rate,   \* <<rate>> once computed, rate = [num, den]
    voters_gdf,     \* rows of the GeoDataFrame built from the matches
    ret,            \* "running" | "None" | "gdf"
    \* ---- spatial_join_county
    county_name,    \* parameter
    voters_file,    \* the geocoded voter layer on disk: [columns, crs, rows]
    parcels_file,   \* the parcel layer on disk: [columns, crs, rows]
    sj_pc,          \* "idle" | "load" | "loaded" | "projected" | "done" | "error"
    sj_voters,      \* the frame `voters`
    parcels,        \* the frame `parcels`
    parval_field,   \* <<name>>, or <<>> for None
    joined,         \* [columns, crs, rows] of the frame `joined`
    successful_joins,
    join_rate,      \* <<rate>> once computed, rate = [num, den]
    sj_written,     \* files written by spatial_join_county
    value_stats,    \* <<statistics>> once printed
    \* ---- the analyses of additional_analyses.py
    combined_file,  \* rows of combined_voters_with_parcels.gpkg
    combined_data,  \* rows of the frame the analyses pass along
    apc,            \* "idle" | "start" | "main" | "any" | "failed" | "absent" | "end"
    done,           \* the analyses that have returned, in the order they ran
    schools_gdf,    \* the sample schools of analysis 2
    a_written,      \* files written by the analyses
    a_reports,      \* the property-value column each report was made on
    \* ---- the files a function reads
    missing,        \* the input files that do not exist
    raw,            \* the bytes of the voter file that hold its text
    tried,          \* the encodings read_csv was called with, in order
    encoding,       \* <<name>> of the encoding the file was read with
    decoded,        \* the text read from raw
    \* ---- main() of a script
    main            \* the run of main(): its position and what it collected

nvars == <<addr, once, twice, npc>>
gvars == <<voter_file, addresses, pc, voters, active_voters, addr_col, ref_clean,
           idx, addr_lookup, matches, matched_count, written, success_rate,
           voters_gdf, ret>>
jvars == <<county_name, voters_file, parcels_file, sj_pc, sj_voters, parcels,
           parval_field, joined, successful_joins, join_rate, sj_written,
           value_stats>>
avars == <<combined_file, combined_data, apc, done, schools_gdf, a_written,
           a_reports>>
evars == <<missing, raw, tried, encoding, decoded>>
mvars == <<main>>
vars == <<nvars, gvars, jvars, avars, evars, mvars>>

\* a frame or layer with nothing in it
EmptyFrame == [columns |-> <<>>, crs |-> "EPSG:2264", rows |-> <<>>]

\* the variables of a function that is not running
JoinIdle ==
    /\ county_name = "" /\ voters_file = EmptyFrame /\ parcels_file = EmptyFrame
    /\ sj_pc = "idle" /\ sj_voters = EmptyFrame /\ parcels = EmptyFrame
    /\ parval_field = <<>> /\ joined = EmptyFrame /\ successful_joins = 0
    /\ join_rate = <<>> /\ sj_written = <<>> /\ value_stats = <<>>
AnalysisIdle ==
    /\ combined_file = <<>> /\ combined_data = <<>> /\ apc = "idle" /\ done = <<>>
    /\ schools_gdf = <<>> /\ a_written = <<>> /\ a_reports = <<>>
\* every input file exists and no text was decoded
FilesIdle ==
    /\ missing = {} /\ raw = <<>> /\ tried = <<>> /\ encoding = <<>> /\ decoded = <<>>
\* the function is called on its own, outside main()
NoMain == [script |-> "none"]
MainIdle == main = NoMain

----------------------------------------------------------------------------
(* Characters *)

LowerCase == <<"a","b","c","d","e","f","g","h","i","j","k","l","m",
               "n","o","p","q","r","s","t","u","v","w","x","y","z">>
UpperCase == <<"A","B","C","D","E","F","G","H","I","J","K","L","M",
               "N","O","P","Q","R","S","T","U","V","W","X","Y","Z">>
Digits == {"0","1","2","3","4","5","6","7","8","9"}

Range(f) == {f[i] : i \in DOMAIN f}

LowerLetters == Range(LowerCase)
UpperOf == [c \in LowerLetters |-> UpperCase[CHOOSE i \in DOMAIN LowerCase : LowerCase[i] = c]]
WordChars == Range(LowerCase) \cup Range(UpperCase) \cup Digits \cup {"_"}
SpaceChars == {" ", "\t", "\n", "\r"}
PunctChars == {",", ".", "-", "#"}

\* str.upper() on one character
UpperChar(c) == IF c \in LowerLetters THEN UpperOf[c] ELSE c

\* \w of the re module
IsWordChar(c) == c \in WordChars

\* \s of the re module, and what str.strip() strips
IsSpace(c) == c \in SpaceChars

\* the character class [,.\-#] of line 57
IsPunct(c) == c \in PunctChars

----------------------------------------------------------------------------
(* String primitives used by enhanced_clean *)

\* s.upper()
Upper(s) == [i \in 1..Len(s) |-> UpperChar(s[i])]

RECURSIVE LStrip(_)
LStrip(s) == IF s # <<>> /\ IsSpace(Head(s)) THEN LStrip(Tail(s)) ELSE s

RECURSIVE RStrip(_)
RStrip(s) ==
    IF s # <<>> /\ IsSpace(s[Len(s)]) THEN RStrip(SubSeq(s, 1, Len(s) - 1)) ELSE s

\* s.strip()
Strip(s) == RStrip(LStrip(s))

\* re.sub(r'[,.\-#]', ' ', s)
SubPunctDeleted(s) == SelectSeq(s, LAMBDA c : ~IsPunct(c))
SubPunct(s) == [i \in 1..Len(s) |-> IF IsPunct(s[i]) THEN " " ELSE s[i]]

\* does the literal w occur in s at position i (1-based)
OccursAt(s, w, i) ==
    /\ i + Len(w) - 1 <= Len(s)
    /\ \A k \in 1..Len(w) : s[i + k - 1] = w[k]

\* \b at the gap before position i of s (i in 1..Len(s)+1)
WordBoundary(s, i) ==
    LET before == i > 1 /\ IsWordChar(s[i - 1])
        after  == i <= Len(s) /\ IsWordChar(s[i])
    IN  before # after

\* a match of \bw\b starting at position i
MatchNoBoundary(s, w, i) == OccursAt(s, w, i)
MatchWord(s, w, i) ==
    /\ OccursAt(s, w, i)
    /\ WordBoundary(s, i)
    /\ WordBoundary(s, i + Len(w))

\* re.sub(r'\bw\b', repl, s): leftmost non-overlapping matches, scanning from i
RECURSIVE SubWordFrom(_, _, _, _)
SubWordFrom(s, w, repl, i) ==
    IF i > Len(s) THEN <<>>
    ELSE IF MatchWord(s, w, i)
         THEN repl \o SubWordFrom(s, w, repl, i + Len(w))
         ELSE <<s[i]>> \o SubWordFrom(s, w, repl, i + 1)

SubWord(s, w, repl) == SubWordFrom(s, w, repl, 1)

\* re.sub(r'\s+', ' ', s): every maximal run of whitespace becomes one space
RECURSIVE CollapseFrom(_, _)
CollapseFrom(s, i) ==
    IF i > Len(s) THEN <<>>
    ELSE IF IsSpace(s[i])
         THEN IF i > 1 /\ IsSpace(s[i - 1])
              THEN CollapseFrom(s, i + 1)
              ELSE <<" ">> \o CollapseFrom(s, i + 1)
         ELSE <<s[i]>> \o CollapseFrom(s, i + 1)

SubSpaces(s) == CollapseFrom(s, 1)

----------------------------------------------------------------------------
(* enhanced_clean *)

\* the dict `replacements`, in insertion (= iteration) order
replacements ==
    << <<  <<"S","T","R","E","E","T">>,      <<"S","T">>      >>,
       <<  <<"A","V","E","N","U","E">>,      <<"A","V","E">>  >>,
       <<  <<"R","O","A","D">>,              <<"R","D">>      >>,
       <<  <<"D","R","I","V","E">>,          <<"D","R">>      >>,
       <<  <<"L","A","N","E">>,              <<"L","N">>      >>,
       <<  <<"C","O","U","R","T">>,          <<"C","T">>      >>,
       <<  <<"C","I","R","C","L","E">>,      <<"C","I","R">>  >>,
       <<  <<"P","L","A","C","E">>,          <<"P","L">>      >> >>

\* the loop of lines 71-72 from entry k on
RECURSIVE ApplyFrom(_, _)
ApplyFrom(s, k) ==
    IF k > Len(replacements) THEN s
    ELSE ApplyFrom(SubWord(s, replacements[k][1], replacements[k][2]), k + 1)

ApplyReplacements(s) == ApplyFrom(s, 1)

\* the text as it stands after line 57 and after line 72
Depunctuated(text) == SubPunct(Strip(Upper(text)))
Abbreviated(text)  == ApplyReplacements(Depunctuated(text))

\* pd.isna(addr)
isnaNever(cell) == FALSE
isna(cell) == cell.na

enhanced_clean_CollapseFirst(cell) ==
    IF isna(cell) THEN <<>>
    ELSE Strip(ApplyReplacements(SubPunct(SubSpaces(Strip(Upper(cell.text))))))
enhanced_clean(cell) ==
    IF isna(cell) THEN <<>>
    ELSE Strip(SubSpaces(Abbreviated(cell.text)))

\* a text value as a cell, and the missing values
TextCell(s) == [na |-> FALSE, text |-> s]
NaNCell  == [na |-> TRUE, text |-> <<"n","a","n">>]
NoneCell == [na |-> TRUE, text |-> <<"N","o","n","e">>]

----------------------------------------------------------------------------
(* Inputs of the normalizer harness *)

\* texts are built by concatenating at most MaxPieces of these pieces
MaxPieces == 3
Pieces ==
    { <<"S","t","r","e","e","t">>,
      <<"D","R","I","V","E">>,
      <<"c","o","u","r","t">>,
      <<"E","R">>,
      <<"W","A","Y">>,
      <<"Y","A","R","D">>,
      <<" ">>,
      <<"\t">>,
      <<",">>,
      <<"-">>,
      <<"#">>,
      <<"'">>,
      <<"_">>,
      <<"4">> }

\* "123 Main Street, Apt #4"
ExampleAddress == <<"1","2","3"," ","M","a","i","n"," ","S","t","r","e","e","t",","," ","A","p","t"," ","#","4">>
\* "123 MAIN ST APT 4"
ExampleClean == <<"1","2","3"," ","M","A","I","N"," ","S","T"," ","A","P","T"," ","4">>
\* "100 Oak Street"
OakStreet == <<"1","0","0"," ","O","a","k"," ","S","t","r","e","e","t">>
\* "100 OAK ST"
OakSt == <<"1","0","0"," ","O","A","K"," ","S","T">>
\* "7 Elm Road"
ElmRoad == <<"7"," ","E","l","m"," ","R","o","a","d">>
\* "7 ELM RD"
ElmRd == <<"7"," ","E","L","M"," ","R","D">>
\* "#"
HashOnly == <<"#">>
\* "9 avenue Road.lane  Circle\tPLACE"
AllLongForms == <<"9"," ","a","v","e","n","u","e"," ","R","o","a","d",".","l","a","n","e"," "," ","C","i","r","c","l","e","\t","P","L","A","C","E">>
\* "STREETER Driveway courtyard"
PartialWords == <<"S","T","R","E","E","T","E","R"," ","D","r","i","v","e","w","a","y"," ","c","o","u","r","t","y","a","r","d">>

RECURSIVE Concat(_)
Concat(ps) == IF ps = <<>> THEN <<>> ELSE Head(ps) \o Concat(Tail(ps))

PieceTexts == { Concat(ps) : ps \in UNION { [1..n -> Pieces] : n \in 0..MaxPieces } }

FixedTexts == { ExampleAddress, ExampleClean, OakStreet, OakSt, ElmRoad, ElmRd,
                HashOnly, AllLongForms, PartialWords }

NormalizerInputs ==
    { TextCell(s) : s \in PieceTexts \cup FixedTexts } \cup { NaNCell, NoneCell }

----------------------------------------------------------------------------
(* Data of ultra_fast_geocode_county *)

MaxVoters == 2      \* rows of the voter file
MaxRefs == 2        \* rows of the address layer

Min(a, b) == IF a < b THEN a ELSE b

\* limit_voters as main() passes it: None (falsy, written 0) or 1000
NoLimit == 0
QuickTestLimit == 1000

WorkingCRS == "EPSG:2264"
\* a layer read from a file that names no reference system has crs None
NoCRS == "None"
CRSs == { "EPSG:2264", "EPSG:4326", NoCRS }

\* A point geometry: the numbers (x, y) it was created with in the reference
\* system native, and the reference system crs it is expressed in now.  Its
\* coordinates are the numbers (x, y) only while crs = native.
Point(c, x, y) == [crs |-> c, native |-> c, x |-> x, y |-> y]

\* a variant of to_crs that leaves the geometry in the system it had
to_crs_kept(g, target) == g

\* GeoDataFrame.to_crs on one geometry whose system is known
to_crs(g, target) == [g EXCEPT !.crs = target]

\* the spelling of the column names, for the substring tests on them
ColumnText ==
    [ OBJECTID |-> <<"O","B","J","E","C","T","I","D">>,
      FullAddr |-> <<"F","u","l","l","A","d","d","r">>,
      PIN      |-> <<"P","I","N">>,
      geometry |-> <<"g","e","o","m","e","t","r","y">> ]

WithAddressColumn == <<"OBJECTID", "FullAddr", "geometry">>
NoAddressColumn == <<"OBJECTID", "PIN", "geometry">>
Schemas == { WithAddressColumn, NoAddressColumn }

Statuses == { "ACTIVE", "INACTIVE" }
VoterCells == { TextCell(OakStreet), TextCell(ElmRoad), TextCell(HashOnly), NaNCell }
RefCells == { TextCell(OakSt), TextCell(ElmRoad), TextCell(HashOnly) }

VoterRows ==
    { [voter_status_desc |-> st, res_street_address |-> c] :
          st \in Statuses, c \in VoterCells }

\* reference row i of a layer: its text cell sits in the second column, its
\* point is (100 i, 200 i)
RefRow(schema, crs, i, cell) ==
    LET g == Point(crs, 100 * i, 200 * i)
    IN  IF schema = WithAddressColumn
        THEN [OBJECTID |-> i, FullAddr |-> cell, geometry |-> g]
        ELSE [OBJECTID |-> i, PIN |-> cell, geometry |-> g]

SeqsUpTo(S, n) == UNION { [1..k -> S] : k \in 0..n }

VoterFiles == SeqsUpTo(VoterRows, MaxVoters)

\* the bytes of a text of the voter file: "A"; e-acute and the euro sign in
\* UTF-8; e-acute in Latin-1; the bytes 0x81 and 0x80, and a lead byte with
\* nothing after it, which are no UTF-8
PlainBytes == <<65>>
RawFiles == { PlainBytes, <<195, 169>>, <<226, 130, 172>>, <<233>>, <<65, 129>>,
             <<128>>, <<65, 195>> }

AddressLayers ==
    { [columns |-> schema, crs |-> crs,
       rows |-> [i \in 1..Len(cells) |-> RefRow(schema, crs, i, cells[i])]] :
          schema \in Schemas, crs \in CRSs, cells \in SeqsUpTo(RefCells, MaxRefs) }

----------------------------------------------------------------------------
(* Steps of ultra_fast_geocode_county *)

\* line 20
encodings_to_try == <<"utf-8", "latin-1", "cp1252", "iso-8859-1">>

\* a byte 10xxxxxx
IsContinuation(b) == b \in 128..191
Undecodable == [ok |-> FALSE, text |-> <<>>]

\* bytes.decode('utf-8') from position i on, as the code points of the text
RECURSIVE utf_8(_, _, _)
utf_8(bs, i, out) ==
    IF i > Len(bs) THEN [ok |-> TRUE, text |-> out]
    ELSE IF bs[i] < 128 THEN utf_8(bs, i + 1, Append(out, bs[i]))
    ELSE IF /\ bs[i] \in 194..223
            /\ i + 1 <= Len(bs)
            /\ IsContinuation(bs[i + 1])
         THEN utf_8(bs, i + 2, Append(out, (bs[i] - 192) * 64 + (bs[i + 1] - 128)))
    ELSE IF /\ bs[i] \in 224..239
            /\ i + 2 <= Len(bs)
            /\ IsContinuation(bs[i + 1]) /\ IsContinuation(bs[i + 2])
            /\ (bs[i] = 224 => bs[i + 1] >= 160)
            /\ (bs[i] = 237 => bs[i + 1] <= 159)
         THEN utf_8(bs, i + 3, Append(out, (bs[i] - 224) * 4096 + (bs[i + 1] - 128) * 64
                                            + (bs[i + 2] - 128)))
    ELSE IF /\ bs[i] \in 240..244
            /\ i + 3 <= Len(bs)
            /\ IsContinuation(bs[i + 1]) /\ IsContinuation(bs[i + 2])
            /\ IsContinuation(bs[i + 3])
            /\ (bs[i] = 240 => bs[i + 1] >= 144)
            /\ (bs[i] = 244 => bs[i + 1] <= 143)
         THEN utf_8(bs, i + 4, Append(out, (bs[i] - 240) * 262144 + (bs[i + 1] - 128) * 4096
                                            + (bs[i + 2] - 128) * 64 + (bs[i + 3] - 128)))
    ELSE Undecodable

\* bytes.decode('latin-1'), which 'iso-8859-1' names too: byte b is code point b
latin_1(bs) == [ok |-> TRUE, text |-> bs]

\* the code points cp1252 gives the bytes 0x80..0x9F; 0 where it defines none
cp1252_high ==
    << 8364, 0, 8218, 402, 8222, 8230, 8224, 8225, 710, 8240, 352, 8249, 338, 0, 381, 0,
       0, 8216, 8217, 8220, 8221, 8226, 8211, 8212, 732, 8482, 353, 8250, 339, 0, 382, 376 >>

\* bytes.decode('cp1252')
cp1252(bs) ==
    IF \E i \in DOMAIN bs : bs[i] \in 128..159 /\ cp1252_high[bs[i] - 127] = 0
    THEN Undecodable
    ELSE [ok |-> TRUE,
          text |-> [i \in DOMAIN bs |->
                       IF bs[i] \in 128..159 THEN cp1252_high[bs[i] - 127] ELSE bs[i]]]

Decode(name, bs) ==
    IF name = "utf-8" THEN utf_8(bs, 1, <<>>)
    ELSE IF name = "cp1252" THEN cp1252(bs)
    ELSE latin_1(bs)

\* a variant of the loop without its break: the last encoding that decodes
LastDecoding(bs) ==
    IF \E k \in DOMAIN encodings_to_try : Decode(encodings_to_try[k], bs).ok
    THEN CHOOSE k \in DOMAIN encodings_to_try :
             /\ Decode(encodings_to_try[k], bs).ok
             /\ \A j \in DOMAIN encodings_to_try :
                    j > k => ~Decode(encodings_to_try[j], bs).ok
    ELSE 0

\* lines 23-34: the position of the encoding the loop breaks at, 0 when every
\* call raised UnicodeDecodeError
FirstDecoding(bs) ==
    IF \E k \in DOMAIN encodings_to_try : Decode(encodings_to_try[k], bs).ok
    THEN CHOOSE k \in DOMAIN encodings_to_try :
             /\ Decode(encodings_to_try[k], bs).ok
             /\ \A j \in 1..(k - 1) : ~Decode(encodings_to_try[j], bs).ok
    ELSE 0

\* pd.read_csv(voter_file, ..., nrows=limit_voters) under `if limit_voters`
read_csv(file, limit_voters) ==
    IF limit_voters # NoLimit
    THEN SubSeq(file, 1, Min(limit_voters, Len(file)))
    ELSE file

\* voters['voter_status_desc'] == 'ACTIVE'
IsActiveContains(v) == v.voter_status_desc \in { "ACTIVE", "INACTIVE" }
IsActive(v) == v.voter_status_desc = "ACTIVE"

\* `x in col` for strings
Contains(s, w) == \E i \in 1..Len(s) : OccursAt(s, w, i)

\* a variant that takes a parcel number for an address
IsAddressColumnOrPin(col) ==
    \E w \in { <<"A","D","D","R">>, <<"S","T","R","E","E","T">>, <<"F","U","L","L">>,
                <<"P","I","N">> } : Contains(Upper(ColumnText[col]), w)

\* any(x in col.upper() for x in ['ADDR', 'STREET', 'FULL'])
IsAddressColumn(col) ==
    \E w \in { <<"A","D","D","R">>, <<"S","T","R","E","E","T">>, <<"F","U","L","L">> } : Contains(Upper(ColumnText[col]), w)

\* clean_addr in addr_lookup
InLookup(lookup, key) == \E i \in 1..Len(lookup) : lookup[i].key = key

\* addr_lookup[clean_addr]
LookupGet(lookup, key) ==
    lookup[CHOOSE i \in 1..Len(lookup) : lookup[i].key = key]

\* lines 109-115: one pass of the loop that fills addr_lookup
LookupLastWins(lookup, clean_addr, row) ==
    IF clean_addr # <<>>
    THEN SelectSeq(lookup, LAMBDA e : e.key # clean_addr)
         \o <<[key |-> clean_addr, x |-> row.geometry.x, y |-> row.geometry.y,
               geometry |-> row.geometry]>>
    ELSE lookup
LookupKeepsEmpty(lookup, clean_addr, row) ==
    IF ~InLookup(lookup, clean_addr)
    THEN Append(lookup, [key |-> clean_addr, x |-> row.geometry.x,
                         y |-> row.geometry.y, geometry |-> row.geometry])
    ELSE lookup
LookupAdd(lookup, clean_addr, row) ==
    IF clean_addr # <<>> /\ ~InLookup(lookup, clean_addr)
    THEN Append(lookup, [key |-> clean_addr, x |-> row.geometry.x,
                         y |-> row.geometry.y, geometry |-> row.geometry])
    ELSE lookup

\* lines 128-133: voter.to_dict() updated with the match
VoterDict(voter, match) ==
    [voter_status_desc |-> voter.voter_status_desc,
     res_street_address |-> voter.res_street_address,
     clean_address |-> voter.clean_address,
     x |-> match.x, y |-> match.y, matched |-> TRUE]

\* lines 125-135: one pass of the matching loop, as the new list of matches
MatchKeepsMisses(ms, voter, lookup) ==
    IF InLookup(lookup, voter.clean_address)
    THEN Append(ms, VoterDict(voter, LookupGet(lookup, voter.clean_address)))
    ELSE Append(ms, [voter_status_desc |-> voter.voter_status_desc,
                     res_street_address |-> voter.res_street_address,
                     clean_address |-> voter.clean_address,
                     x |-> 0, y |-> 0, matched |-> FALSE])
MatchOne(ms, voter, lookup) ==
    IF InLookup(lookup, voter.clean_address)
    THEN Append(ms, VoterDict(voter, LookupGet(lookup, voter.clean_address)))
    ELSE ms

\* lines 139-145: the GeoDataFrame of the matches, in EPSG:2264
GeoFrameSwapped(ms, crs) ==
    [i \in 1..Len(ms) |->
        LET g == Point(crs, ms[i].y, ms[i].x)
        IN  [voter_status_desc |-> ms[i].voter_status_desc,
             res_street_address |-> ms[i].res_street_address,
             clean_address |-> ms[i].clean_address,
             x |-> ms[i].x, y |-> ms[i].y, matched |-> ms[i].matched,
             geometry |-> IF crs # WorkingCRS THEN to_crs(g, WorkingCRS) ELSE g]]
GeoFrame(ms, crs) ==
    [i \in 1..Len(ms) |->
        LET g == Point(crs, ms[i].x, ms[i].y)
        IN  [voter_status_desc |-> ms[i].voter_status_desc,
             res_street_address |-> ms[i].res_street_address,
             clean_address |-> ms[i].clean_address,
             x |-> ms[i].x, y |-> ms[i].y, matched |-> ms[i].matched,
             geometry |-> IF crs # WorkingCRS THEN to_crs(g, WorkingCRS) ELSE g]]

\* line 153, as the fraction num / den
SuccessRateSwapped(count, total_voters) ==
    IF total_voters > 0 THEN [num |-> total_voters * 100, den |-> count]
    ELSE [num |-> 0, den |-> 1]
SuccessRate(count, total_voters) ==
    IF total_voters > 0 THEN [num |-> count * 100, den |-> total_voters]
    ELSE [num |-> 0, den |-> 1]

\* where the function goes once the address column is chosen / a loop ends
AfterLookup == IF Len(active_voters) > 0 THEN "match" ELSE "finish"
AfterColumn == IF Len(addresses.rows) > 0 THEN "lookup" ELSE AfterLookup

\* lines 19-37: a file that does not exist raises FileNotFoundError at the
\* first call, which the loop does not catch
LoadVoters ==
    /\ pc = "load"
    /\ IF "voter_file" \in missing
       THEN /\ tried' = <<encodings_to_try[1]>>
            /\ ret' = "raised"
            /\ pc' = "error"
            /\ UNCHANGED <<encoding, decoded, voters>>
       ELSE LET n == FirstDecoding(raw)
            IN  IF n = 0
                THEN /\ tried' = encodings_to_try
                     /\ ret' = "raised"
                     /\ pc' = "error"
                     /\ UNCHANGED <<encoding, decoded, voters>>
                ELSE /\ tried' = SubSeq(encodings_to_try, 1, n)
                     /\ encoding' = <<encodings_to_try[n]>>
                     /\ decoded' = Decode(encodings_to_try[n], raw).text
                     /\ \E limit_voters \in { NoLimit, QuickTestLimit } :
                            voters' = read_csv(voter_file, limit_voters)
                     /\ pc' = "filter"
                     /\ ret' = ret
    /\ UNCHANGED <<voter_file, addresses, active_voters, addr_col, ref_clean, idx,
                   addr_lookup, matches, matched_count, written, success_rate,
                   voters_gdf, missing, raw, nvars, jvars, avars, mvars>>

\* lines 39-45: the active voters are kept, then the address layer is read
FilterActive ==
    /\ pc = "filter"
    /\ active_voters' = SelectSeq(voters, IsActive)
    /\ IF "address_gdb" \in missing
       THEN ret' = "raised" /\ pc' = "error"
       ELSE ret' = ret /\ pc' = "clean"
    /\ UNCHANGED <<voter_file, addresses, voters, addr_col, ref_clean, idx,
                   addr_lookup, matches, matched_count, written, success_rate,
                   voters_gdf, nvars, jvars, avars, evars, mvars>>

\* lines 79-81
CleanVoters ==
    /\ pc = "clean"
    /\ active_voters' =
           [i \in 1..Len(active_voters) |->
               [voter_status_desc |-> active_voters[i].voter_status_desc,
                res_street_address |-> active_voters[i].res_street_address,
                clean_address |-> enhanced_clean(active_voters[i].res_street_address)]]
    /\ pc' = "column"
    /\ UNCHANGED <<voter_file, addresses, voters, addr_col, ref_clean, idx,
                   addr_lookup, matches, matched_count, written, success_rate,
                   voters_gdf, ret, nvars, jvars, avars, evars, mvars>>

\* lines 89-93: no address column, return None
NoColumn ==
    /\ pc = "column"
    /\ SelectSeq(addresses.columns, IsAddressColumn) = <<>>
    /\ ret' = "None"
    /\ pc' = "done"
    /\ UNCHANGED <<voter_file, addresses, voters, active_voters, addr_col, ref_clean,
                   idx, addr_lookup, matches, matched_count, written, success_rate,
                   voters_gdf, nvars, jvars, avars, evars, mvars>>

\* lines 95-97: the first address column is cleaned
CleanAddresses ==
    /\ pc = "column"
    /\ LET addr_cols == SelectSeq(addresses.columns, IsAddressColumn)
       IN  /\ addr_cols # <<>>
           /\ addr_col' = <<addr_cols[1]>>
           /\ ref_clean' = [i \in 1..Len(addresses.rows) |->
                               enhanced_clean(addresses.rows[i][addr_cols[1]])]
    /\ idx' = 1
    /\ pc' = AfterColumn
    /\ UNCHANGED <<voter_file, addresses, voters, active_voters, addr_lookup,
                   matches, matched_count, written, success_rate, voters_gdf, ret,
                   nvars, jvars, avars, evars, mvars>>

\* lines 108-115: one reference row
BuildLookupRow ==
    /\ pc = "lookup"
    /\ idx <= Len(addresses.rows)
    /\ addr_lookup' = LookupAdd(addr_lookup, ref_clean[idx], addresses.rows[idx])
    /\ IF idx < Len(addresses.rows)
       THEN idx' = idx + 1 /\ pc' = pc
       ELSE idx' = 1 /\ pc' = AfterLookup
    /\ UNCHANGED <<voter_file, addresses, voters, active_voters, addr_col, ref_clean,
                   matches, matched_count, written, success_rate, voters_gdf, ret,
                   nvars, jvars, avars, evars, mvars>>

\* lines 124-135: one active voter
MatchVoter ==
    /\ pc = "match"
    /\ idx <= Len(active_voters)
    /\ matches' = MatchOne(matches, active_voters[idx], addr_lookup)
    /\ matched_count' = matched_count + (Len(matches') - Len(matches))
    /\ IF idx < Len(active_voters)
       THEN idx' = idx + 1 /\ pc' = pc
       ELSE idx' = 1 /\ pc' = "finish"
    /\ UNCHANGED <<voter_file, addresses, voters, active_voters, addr_col, ref_clean,
                   addr_lookup, written, success_rate, voters_gdf, ret, nvars, jvars, avars, evars, mvars>>

\* lines 137-163: matches exist, the frame is built, written and returned
WriteOutput ==
    /\ pc = "finish"
    /\ matches # <<>>
    /\ addresses.crs # NoCRS
    /\ voters_gdf' = GeoFrame(matches, addresses.crs)
    /\ written' = Append(written, [crs |-> voters_gdf'[1].geometry.crs,
                                    rows |-> voters_gdf'])
    /\ success_rate' = <<SuccessRate(matched_count, Len(active_voters))>>
    /\ ret' = "gdf"
    /\ pc' = "done"
    /\ UNCHANGED <<voter_file, addresses, voters, active_voters, addr_col, ref_clean,
                   idx, addr_lookup, matches, matched_count, nvars, jvars, avars, evars, mvars>>

\* lines 137-145 when the reference layer has no system: to_crs raises and
\* the function is left with nothing written
WriteFails ==
    /\ pc = "finish"
    /\ matches # <<>>
    /\ addresses.crs = NoCRS
    /\ ret' = "raised"
    /\ pc' = "error"
    /\ UNCHANGED <<voter_file, addresses, voters, active_voters, addr_col, ref_clean,
                   idx, addr_lookup, matches, matched_count, written, success_rate,
                   voters_gdf, nvars, jvars, avars, evars, mvars>>

\* lines 164-166
NoMatches ==
    /\ pc = "finish"
    /\ matches = <<>>
    /\ ret' = "None"
    /\ pc' = "done"
    /\ UNCHANGED <<voter_file, addresses, voters, active_voters, addr_col, ref_clean,
                   idx, addr_lookup, matches, matched_count, written, success_rate,
                   voters_gdf, nvars, jvars, avars, evars, mvars>>

GeoInit ==
    /\ voter_file \in VoterFiles
    /\ addresses \in AddressLayers
    /\ pc = "load"
    /\ voters = <<>>
    /\ active_voters = <<>>
    /\ addr_col = <<>>
    /\ ref_clean = <<>>
    /\ idx = 1
    /\ addr_lookup = <<>>
    /\ matches = <<>>
    /\ matched_count = 0
    /\ written = <<>>
    /\ success_rate = <<>>
    /\ voters_gdf = <<>>
    /\ ret = "running"
    /\ addr = NaNCell /\ once = <<>> /\ twice = <<>> /\ npc = "idle"
    /\ JoinIdle
    /\ AnalysisIdle
    /\ missing = {} /\ raw = PlainBytes /\ tried = <<>> /\ encoding = <<>>
    /\ decoded = <<>>
    /\ MainIdle

GeoNext ==
    \/ LoadVoters
    \/ FilterActive
    \/ CleanVoters
    \/ NoColumn
    \/ CleanAddresses
    \/ BuildLookupRow
    \/ MatchVoter
    \/ WriteOutput
    \/ WriteFails
    \/ NoMatches

GeoSpec == GeoInit /\ [][GeoNext]_vars

\* ultra_fast_geocode_county on voter files in several encodings
MaxDecodeRows == 1

DecodeInit ==
    /\ voter_file \in SeqsUpTo(VoterRows, MaxDecodeRows)
    /\ addresses \in { a \in AddressLayers : Len(a.rows) <= MaxDecodeRows }
    /\ pc = "load"
    /\ voters = <<>>
    /\ active_voters = <<>>
    /\ addr_col = <<>>
    /\ ref_clean = <<>>
    /\ idx = 1
    /\ addr_lookup = <<>>
    /\ matches = <<>>
    /\ matched_count = 0
    /\ written = <<>>
    /\ success_rate = <<>>
    /\ voters_gdf = <<>>
    /\ ret = "running"
    /\ addr = NaNCell /\ once = <<>> /\ twice = <<>> /\ npc = "idle"
    /\ JoinIdle
    /\ AnalysisIdle
    /\ missing = {} /\ raw \in RawFiles /\ tried = <<>> /\ encoding = <<>>
    /\ decoded = <<>>
    /\ MainIdle

DecodeSpec == DecodeInit /\ [][GeoNext]_vars

----------------------------------------------------------------------------
(* The normalizer on its own: enhanced_clean applied to a cell, then to its
   own result *)

Clean ==
    /\ npc = "start"
    /\ once' = enhanced_clean(addr)
    /\ npc' = "cleaned"
    /\ UNCHANGED <<addr, twice, gvars, jvars, avars, evars, mvars>>

Reclean ==
    /\ npc = "cleaned"
    /\ twice' = enhanced_clean(TextCell(once))
    /\ npc' = "recleaned"
    /\ UNCHANGED <<addr, once, gvars, jvars, avars, evars, mvars>>

NormInit ==
    /\ addr \in NormalizerInputs
    /\ once = <<>> /\ twice = <<>> /\ npc = "start"
    /\ voter_file = <<>>
    /\ addresses = [columns |-> <<>>, crs |-> WorkingCRS, rows |-> <<>>]
    /\ pc = "idle"
    /\ voters = <<>>
    /\ active_voters = <<>>
    /\ addr_col = <<>>
    /\ ref_clean = <<>>
    /\ idx = 1
    /\ addr_lookup = <<>>
    /\ matches = <<>>
    /\ matched_count = 0
    /\ written = <<>>
    /\ success_rate = <<>>
    /\ voters_gdf = <<>>
    /\ ret = "running"
    /\ JoinIdle
    /\ AnalysisIdle
    /\ FilesIdle
    /\ MainIdle

NormNext == Clean \/ Reclean

NormSpec == NormInit /\ [][NormNext]_vars

-----------------------------------------------------------------------------
(* spatial_joins.py: spatial_join_county(county_name).

   A frame is [columns, crs, rows]; a row maps each column name to a cell
   [na, val].  The geometry cell of a voter holds a point, that of a parcel a
   rectangle [crs, native, x0, y0, x1, y1]; as for the geocoder, the numbers
   are those of the system `native` and `crs` is the system the geometry is
   expressed in now.  The frame `joined` also carries `index`, the label of
   each of its rows (the position of the voter it comes from). *)

NormIdle == addr = NaNCell /\ once = <<>> /\ twice = <<>> /\ npc = "idle"
GeoIdle ==
    /\ voter_file = <<>> /\ addresses = EmptyFrame /\ pc = "idle"
    /\ voters = <<>> /\ active_voters = <<>> /\ addr_col = <<>> /\ ref_clean = <<>>
    /\ idx = 1 /\ addr_lookup = <<>> /\ matches = <<>> /\ matched_count = 0
    /\ written = <<>> /\ success_rate = <<>> /\ voters_gdf = <<>> /\ ret = "running"

Null == [na |-> TRUE, val |-> 0]
Val(v) == [na |-> FALSE, val |-> v]

LowerOf == [c \in Range(UpperCase) |-> LowerCase[CHOOSE i \in DOMAIN UpperCase : UpperCase[i] = c]]
LowerChar(c) == IF c \in DOMAIN LowerOf THEN LowerOf[c] ELSE c
\* str.lower
Lower(s) == [i \in 1..Len(s) |-> LowerChar(s[i])]

\* the spelling of the column names of the parcel layers and of the frames
\* joined to them
ParcelColumnText ==
    [ PARNO      |-> <<"P","A","R","N","O">>,
      voter_reg_num |-> <<"v","o","t","e","r","_","r","e","g","_","n","u","m">>,
      party_cd   |-> <<"p","a","r","t","y","_","c","d">>,
      birth_year |-> <<"b","i","r","t","h","_","y","e","a","r">>,
      registr_dt |-> <<"r","e","g","i","s","t","r","_","d","t">>,
      voter_status_desc |-> <<"v","o","t","e","r","_","s","t","a","t","u","s","_","d","e","s","c">>,
      TOTAL_VALUE |-> <<"T","O","T","A","L","_","V","A","L","U","E">>,
      ParVal_2024 |-> <<"P","a","r","V","a","l","_","2","0","2","4">>,
      PARVAL     |-> <<"P","A","R","V","A","L">>,
      Land_Value |-> <<"L","a","n","d","_","V","a","l","u","e">>,
      ACRES      |-> <<"A","C","R","E","S">>,
      county     |-> <<"c","o","u","n","t","y">>,
      geometry   |-> <<"g","e","o","m","e","t","r","y">> ]


Rect(c, x0, y0, x1, y1) ==
    [crs |-> c, native |-> WorkingCRS, x0 |-> x0, y0 |-> y0, x1 |-> x1, y1 |-> y1]
Spot(c, x, y) == [crs |-> c, native |-> WorkingCRS, x |-> x, y |-> y]

\* positions in feet of the working system: inside the first parcel only,
\* inside both parcels, on the upper edge of both, outside both
VoterSpots == { <<250, 500>>, <<750, 500>>, <<750, 1000>>, <<2000, 500>> }

VoterColumns == { <<"voter_reg_num", "geometry">>,
                  <<"voter_reg_num", "county", "geometry">> }
ParcelColumns == { <<"PARNO", "PARVAL", "geometry">>,
                   <<"PARNO", "county", "Land_Value", "PARVAL", "geometry">>,
                   <<"PARNO", "ACRES", "geometry">> }
CountyNames == { "Pitt", "Beaufort" }

\* the shape of a parcel and its assessed value, if any; the two shapes
\* overlap on 500 < x < 1000
ParcelKinds == { <<<<0, 0, 1000, 1000>>, Val(150000)>>,
                 <<<<500, 0, 1500, 1000>>, Val(90000)>>,
                 <<<<500, 0, 1500, 1000>>, Null>> }

MaxJoinVoters == 2
MaxParcels == 2

VoterRowOf(cols, c, spot) ==
    [col \in Range(cols) |->
        IF col = "geometry" THEN Val(Spot(c, spot[1], spot[2]))
        ELSE IF col = "county" THEN Val("MARTIN")
        ELSE Val(spot[1] + spot[2])]

ParcelRowOf(cols, c, kind) ==
    [col \in Range(cols) |->
        IF col = "geometry"
            THEN Val(Rect(c, kind[1][1], kind[1][2], kind[1][3], kind[1][4]))
        ELSE IF col = "county" THEN Val("PITT")
        ELSE IF col = "PARNO" THEN Val(kind[1][1])
        ELSE IF col = "ACRES" THEN Val(23)
        ELSE kind[2]]

VoterLayers ==
    { [columns |-> cols, crs |-> c,
       rows |-> [i \in DOMAIN spots |-> VoterRowOf(cols, c, spots[i])]] :
        cols \in VoterColumns, c \in CRSs,
        spots \in SeqsUpTo(VoterSpots, MaxJoinVoters) }

ParcelLayers ==
    { [columns |-> cols, crs |-> c,
       rows |-> [i \in DOMAIN kinds |-> ParcelRowOf(cols, c, kinds[i])]] :
        cols \in ParcelColumns, c \in CRSs,
        kinds \in SeqsUpTo(ParcelKinds, MaxParcels) }

\* parval_cols = [col for col in parcels.columns
\*                if 'parval' in col.lower() or 'value' in col.lower()]
IsValueColumn(col) ==
    \/ Contains(Lower(ParcelColumnText[col]), <<"p","a","r","v","a","l">>)
    \/ Contains(Lower(ParcelColumnText[col]), <<"v","a","l","u","e">>)

parval_cols(columns) == SelectSeq(columns, IsValueColumn)

\* a variant that takes the last candidate instead of the first
ParvalFieldLast(columns) ==
    IF parval_cols(columns) # <<>>
        THEN <<parval_cols(columns)[Len(parval_cols(columns))]>>
        ELSE <<>>

\* parval_field = parval_cols[0] if parval_cols else None
ParvalField(columns) ==
    IF parval_cols(columns) # <<>> THEN <<parval_cols(columns)[1]>> ELSE <<>>

\* GeoDataFrame.to_crs on a frame whose system is known
ReprojectFrame(F, target) ==
    [F EXCEPT !.crs = target,
              !.rows = [i \in DOMAIN F.rows |->
                          [F.rows[i] EXCEPT !["geometry"].val = to_crs(@, target)]]]

\* if frame.crs != 'EPSG:2264': frame = frame.to_crs('EPSG:2264')
InWorkingCRS(F) == IF F.crs # WorkingCRS THEN ReprojectFrame(F, WorkingCRS) ELSE F

\* predicate='within': the point lies in the interior of the polygon
Within(p, g) == g.x0 < p.x /\ p.x < g.x1 /\ g.y0 < p.y /\ p.y < g.y1

\* the parcels a voter lies within, by position, ascending
RECURSIVE MatchesFrom(_, _, _)
MatchesFrom(p, R, j) ==
    IF j > Len(R.rows) THEN <<>>
    ELSE (IF Within(p, R.rows[j]["geometry"].val) THEN <<j>> ELSE <<>>)
            \o MatchesFrom(p, R, j + 1)

\* the columns both frames have get a suffix; the geometry of the right frame
\* is not carried over
Overlap(L, R) == (Range(L.columns) \cap Range(R.columns)) \ {"geometry"}
LeftName(L, R, c) == IF c \in Overlap(L, R) THEN c \o "_left" ELSE c
RightName(L, R, c) == IF c \in Overlap(L, R) THEN c \o "_right" ELSE c
RightKept(R) == SelectSeq(R.columns, LAMBDA c : c # "geometry")

JoinedColumns(L, R) ==
    [i \in DOMAIN L.columns |-> LeftName(L, R, L.columns[i])]
        \o <<"index_right">>
        \o [i \in DOMAIN RightKept(R) |-> RightName(L, R, RightKept(R)[i])]

\* the row of voter i joined to parcel j, or to no parcel when j = 0
JoinedRow(L, R, i, j) ==
    [c \in Range(JoinedColumns(L, R)) |->
        IF \E lc \in Range(L.columns) : LeftName(L, R, lc) = c
            THEN L.rows[i][CHOOSE lc \in Range(L.columns) : LeftName(L, R, lc) = c]
        ELSE IF j = 0 THEN Null
        ELSE IF c = "index_right" THEN Val(j)
        ELSE R.rows[j][CHOOSE rc \in Range(RightKept(R)) : RightName(L, R, rc) = c]]

\* the positions of the pairs the join puts out, voter by voter: <<i, j>> for
\* each parcel j voter i lies within, and <<i, 0>> for a voter within none
\* when the join keeps the left rows
RECURSIVE PairsFrom(_, _, _, _)
PairsFrom(L, R, i, keep_left) ==
    IF i > Len(L.rows) THEN <<>>
    ELSE LET m == MatchesFrom(L.rows[i]["geometry"].val, R, 1)
         IN  (IF m # <<>> THEN [k \in DOMAIN m |-> <<i, m[k]>>]
              ELSE IF keep_left THEN << <<i, 0>> >>
              ELSE <<>>)
                \o PairsFrom(L, R, i + 1, keep_left)

JoinFrame(L, R, pairs) ==
    [columns |-> JoinedColumns(L, R),
     crs |-> L.crs,
     rows |-> [k \in DOMAIN pairs |-> JoinedRow(L, R, pairs[k][1], pairs[k][2])],
     index |-> [k \in DOMAIN pairs |-> pairs[k][1]]]

\* gpd.sjoin(..., how='inner', predicate='within')
sjoin_inner(L, R) == JoinFrame(L, R, PairsFrom(L, R, 1, FALSE))

\* gpd.sjoin(voters, parcels, how='left', predicate='within')
sjoin(L, R) == JoinFrame(L, R, PairsFrom(L, R, 1, TRUE))

\* len(joined.dropna(subset=['index_right']))
CountMatched(J) == Cardinality({k \in DOMAIN J.rows : ~J.rows[k]["index_right"].na})

\* (successful_joins / len(voters)) * 100
JoinRate(J, n) == [num |-> CountMatched(J) * 100, den |-> n]

\* a variant that keeps a county value the row already has
StampCountyIfAbsent(J, name) ==
    [J EXCEPT !.columns = IF "county" \in Range(J.columns) THEN @
                          ELSE Append(@, "county"),
              !.rows = [k \in DOMAIN J.rows |->
                          [c \in Range(J.columns) \cup {"county"} |->
                              IF c = "county" /\ "county" \notin Range(J.columns)
                                  THEN Val(name)
                              ELSE J.rows[k][c]]]]

\* joined['county'] = county_name
StampCounty(J, name) ==
    [J EXCEPT !.columns = IF "county" \in Range(J.columns) THEN @
                          ELSE Append(@, "county"),
              !.rows = [k \in DOMAIN J.rows |->
                          [c \in Range(J.columns) \cup {"county"} |->
                              IF c = "county" THEN Val(name) ELSE J.rows[k][c]]]]

\* joined.drop(columns=['index_right']) when the column is there
DropIndexRight(J) ==
    [J EXCEPT !.columns = SelectSeq(@, LAMBDA c : c # "index_right"),
              !.rows = [k \in DOMAIN J.rows |->
                          [c \in Range(J.columns) \ {"index_right"} |-> J.rows[k][c]]]]

\* joined[parval_field].dropna(), from which count, mean, median, min and max
\* are printed
ValidValues(J, field) ==
    LET present == SelectSeq([k \in DOMAIN J.rows |-> J.rows[k][field]],
                             LAMBDA cell : ~cell.na)
    IN  [k \in DOMAIN present |-> present[k].val]

\* lines 19-37: read both layers, pick the property-value field; a layer
\* that does not exist makes read_file raise
JoinLoad ==
    /\ sj_pc = "load"
    /\ IF "voters_file" \in missing
       THEN sj_pc' = "error" /\ UNCHANGED <<sj_voters, parcels, parval_field>>
       ELSE IF "parcels_file" \in missing
       THEN sj_pc' = "error" /\ sj_voters' = voters_file
            /\ UNCHANGED <<parcels, parval_field>>
       ELSE /\ sj_voters' = voters_file
            /\ parcels' = parcels_file
            /\ parval_field' = ParvalField(parcels_file.columns)
            /\ sj_pc' = "loaded"
    /\ UNCHANGED <<county_name, voters_file, parcels_file, joined, successful_joins,
                   join_rate, sj_written, value_stats, nvars, gvars, avars, evars, mvars>>

\* lines 39-47: both layers to the working system
Reproject ==
    /\ sj_pc = "loaded"
    /\ sj_voters.crs # NoCRS /\ parcels.crs # NoCRS
    /\ sj_voters' = InWorkingCRS(sj_voters)
    /\ parcels' = InWorkingCRS(parcels)
    /\ sj_pc' = "projected"
    /\ UNCHANGED <<county_name, voters_file, parcels_file, parval_field, joined,
                   successful_joins, join_rate, sj_written, value_stats,
                   nvars, gvars, avars, evars, mvars>>

\* lines 39-47 when a layer has no system: to_crs raises, the function is left
ReprojectFails ==
    /\ sj_pc = "loaded"
    /\ sj_voters.crs = NoCRS \/ parcels.crs = NoCRS
    /\ sj_voters' = IF sj_voters.crs = NoCRS THEN sj_voters ELSE InWorkingCRS(sj_voters)
    /\ sj_pc' = "error"
    /\ UNCHANGED <<county_name, voters_file, parcels_file, parcels, parval_field,
                   joined, successful_joins, join_rate, sj_written, value_stats,
                   nvars, gvars, avars, evars, mvars>>

\* lines 49-86: join, rate, county stamp, output file, value statistics
SpatialJoin ==
    /\ sj_pc = "projected"
    /\ Len(sj_voters.rows) > 0
    /\ LET j == sjoin(sj_voters, parcels)
           out == DropIndexRight(StampCounty(j, county_name))
       IN  /\ successful_joins' = CountMatched(j)
           /\ join_rate' = <<JoinRate(j, Len(sj_voters.rows))>>
           /\ joined' = out
           /\ sj_written' = Append(sj_written, [county |-> county_name, frame |-> out])
           /\ value_stats' =
                IF parval_field # <<>> /\ parval_field[1] \in Range(out.columns)
                    THEN <<[field |-> parval_field[1],
                            valid_values |-> ValidValues(out, parval_field[1])]>>
                    ELSE <<>>
    /\ sj_pc' = "done"
    /\ UNCHANGED <<county_name, voters_file, parcels_file, sj_voters, parcels,
                   parval_field, nvars, gvars, avars, evars, mvars>>

\* lines 49-56 with an empty voter layer: the division raises
JoinRateFails ==
    /\ sj_pc = "projected"
    /\ Len(sj_voters.rows) = 0
    /\ joined' = sjoin(sj_voters, parcels)
    /\ successful_joins' = CountMatched(joined')
    /\ sj_pc' = "error"
    /\ UNCHANGED <<county_name, voters_file, parcels_file, sj_voters, parcels,
                   parval_field, join_rate, sj_written, value_stats,
                   nvars, gvars, avars, evars, mvars>>

\* the systems the voter layer and the parcel layer are read in: both the
\* working system, one or both in another system, one without a system
SystemPairs ==
    { <<WorkingCRS, WorkingCRS>>, <<"EPSG:4326", WorkingCRS>>, <<WorkingCRS, "EPSG:4326">>,
      <<"EPSG:4326", "EPSG:4326">>, <<WorkingCRS, NoCRS>>, <<NoCRS, "EPSG:4326">> }

JoinInit ==
    /\ county_name \in CountyNames
    /\ voters_file \in VoterLayers
    /\ parcels_file \in ParcelLayers
    /\ <<voters_file.crs, parcels_file.crs>> \in SystemPairs
    /\ sj_pc = "load"
    /\ sj_voters = EmptyFrame /\ parcels = EmptyFrame
    /\ parval_field = <<>> /\ joined = EmptyFrame /\ successful_joins = 0
    /\ join_rate = <<>> /\ sj_written = <<>> /\ value_stats = <<>>
    /\ NormIdle
    /\ GeoIdle
    /\ AnalysisIdle
    /\ FilesIdle
    /\ MainIdle

JoinNext ==
    \/ JoinLoad
    \/ Reproject
    \/ ReprojectFails
    \/ SpatialJoin
    \/ JoinRateFails

JoinSpec == JoinInit /\ [][JoinNext]_vars

\* the geocoder and the join that reads what it wrote, each on its own inputs
PipelineInit == GeoInit \/ JoinInit
PipelineNext == GeoNext \/ JoinNext
PipelineSpec == PipelineInit /\ [][PipelineNext]_vars

-----------------------------------------------------------------------------
(* additional_analyses.py: the five analyses that main() passes the combined
   dataset through.  The dataset is [columns, rows], a row mapping each column
   name to a cell [na, val]; the label of a row is its position.  An analysis
   changes the frame it is given in place and returns it. *)

CombinedColumns ==
    <<"party_cd", "birth_year", "registr_dt", "voter_status_desc", "county",
      "PARVAL", "geometry">>

\* a variant that starts again from the input attributes each time
SetColumnOnInputs(F, name, cells) ==
    [columns |-> Append(SelectSeq(F.columns, LAMBDA c : c \in Range(CombinedColumns)), name),
     rows |-> [i \in DOMAIN F.rows |->
                 [c \in (Range(F.columns) \cap Range(CombinedColumns)) \cup {name} |->
                     IF c = name THEN cells[i] ELSE F.rows[i][c]]]]

\* the frame with one more column, or with the column replaced when it is there
SetColumn(F, name, cells) ==
    [columns |-> IF name \in Range(F.columns) THEN F.columns
                 ELSE Append(F.columns, name),
     rows |-> [i \in DOMAIN F.rows |->
                 [c \in Range(F.columns) \cup {name} |->
                     IF c = name THEN cells[i] ELSE F.rows[i][c]]]]

PointOf(F, i) == F.rows[i]["geometry"].val

\* np.sum((coords - coord) ** 2), the square of the distance of line 37
SquaredDistance(p, q) == (p.x - q.x) * (p.x - q.x) + (p.y - q.y) * (p.y - q.y)

\* search_radius of line 33, in feet
search_radius == 2000

\* line 39: (distances > 0) & (distances <= search_radius)
IsNeighbor(p, q) ==
    /\ SquaredDistance(p, q) > 0
    /\ SquaredDistance(p, q) <= search_radius * search_radius

\* lines 35-46
DensityScores(F) ==
    [i \in DOMAIN F.rows |->
        Cardinality({ j \in DOMAIN F.rows : IsNeighbor(PointOf(F, j), PointOf(F, i)) })]

\* the k-th smallest element of a non-empty sequence of numbers, k from 1
Kth(a, k) ==
    CHOOSE v \in Range(a) :
        /\ Cardinality({ j \in DOMAIN a : a[j] < v }) < k
        /\ k <= Cardinality({ j \in DOMAIN a : a[j] <= v })

\* four times np.percentile(a, 25 * m): the sorted values are interpolated
\* linearly at the position (n - 1) * m / 4
Percentile4(a, m) ==
    LET t == m * (Len(a) - 1)
        lo == Kth(a, (t \div 4) + 1)
        hi == IF t % 4 = 0 THEN lo ELSE Kth(a, (t \div 4) + 2)
    IN  4 * lo + (t % 4) * (hi - lo)

\* a variant in which the Urban assignment comes last
TierUrbanLast(score, urban4, rural4) ==
    IF 4 * score >= urban4 THEN "Urban"
    ELSE IF 4 * score <= rural4 THEN "Rural"
    ELSE "Suburban"

\* a variant with strict comparisons
TierStrict(score, urban4, rural4) ==
    IF 4 * score < rural4 THEN "Rural"
    ELSE IF 4 * score > urban4 THEN "Urban"
    ELSE "Suburban"

\* lines 53-55: 'Suburban', then 'Urban' where the score reaches the urban
\* threshold, then 'Rural' where it does not exceed the rural one
Tier(score, urban4, rural4) ==
    IF 4 * score <= rural4 THEN "Rural"
    ELSE IF 4 * score >= urban4 THEN "Urban"
    ELSE "Suburban"

\* lines 28-55
Classified(F) ==
    LET density_scores == DensityScores(F)
        urban_threshold4 == Percentile4(density_scores, 3)
        rural_threshold4 == Percentile4(density_scores, 1)
        scored == SetColumn(F, "density_score",
                            [i \in DOMAIN F.rows |-> Val(density_scores[i])])
    IN  SetColumn(scored, "urban_rural",
                  [i \in DOMAIN F.rows |->
                      Val(Tier(density_scores[i], urban_threshold4, rural_threshold4))])

\* the names of the columns the analyses add, and of one more column that
\* analysis 5 looks for
DerivedColumnText ==
    [ density_score |-> <<"d","e","n","s","i","t","y","_","s","c","o","r","e">>,
      urban_rural |-> <<"u","r","b","a","n","_","r","u","r","a","l">>,
      within_1000ft_school |-> <<"w","i","t","h","i","n","_","1","0","0","0","f","t","_","s","c","h","o","o","l">>,
      within_2000ft_school |-> <<"w","i","t","h","i","n","_","2","0","0","0","f","t","_","s","c","h","o","o","l">>,
      within_5000ft_school |-> <<"w","i","t","h","i","n","_","5","0","0","0","f","t","_","s","c","h","o","o","l">>,
      age |-> <<"a","g","e">>,
      age_group |-> <<"a","g","e","_","g","r","o","u","p">>,
      distance_to_center |-> <<"d","i","s","t","a","n","c","e","_","t","o","_","c","e","n","t","e","r">>,
      distance_category |-> <<"d","i","s","t","a","n","c","e","_","c","a","t","e","g","o","r","y">>,
      registration_date |-> <<"r","e","g","i","s","t","r","a","t","i","o","n","_","d","a","t","e">>,
      registration_year |-> <<"r","e","g","i","s","t","r","a","t","i","o","n","_","y","e","a","r">>,
      registration_period |-> <<"r","e","g","i","s","t","r","a","t","i","o","n","_","p","e","r","i","o","d">>,
      total_voters |-> <<"t","o","t","a","l","_","v","o","t","e","r","s">> ]

NameText(col) ==
    IF col \in DOMAIN ParcelColumnText THEN ParcelColumnText[col]
    ELSE DerivedColumnText[col]

\* lines 71, 141, 195, 277 and 401:
\* parval_cols = [col for col in combined_data.columns if 'parval' in col.lower()]
IsParvalColumn(col) == Contains(Lower(NameText(col)), <<"p","a","r","v","a","l">>)

\* parval_col = parval_cols[0] under `if parval_cols:`; <<>> when the report
\* of property values is left out
parval_col(columns) ==
    LET cols == SelectSeq(columns, IsParvalColumn)
    IN  IF cols # <<>> THEN <<cols[1]>> ELSE <<>>

\* the report of property values that a stage prints or writes
Report(stage, F) == [stage |-> stage, field |-> parval_col(F.columns)]

\* a cell of a column of dtype object that holds text where a number is
\* expected
Obj(t) == [na |-> FALSE, str |-> t]
IsObj(cell) == "str" \in DOMAIN cell

HasColumn(F, c) == c \in Range(F.columns)

\* analysis k (6 for create_summary_report) raises on the frame: KeyError of
\* combined_data['party_cd'] (lines 66, 132, 191, 273, 336, 393), of
\* voter['county'] and combined_data['county'] (lines 108, 206, 232, 341, 389),
\* of combined_data['voter_status_desc'] (line 362), TypeError of
\* 2025 - combined_data['birth_year'] on text (line 173)
Fails(k, F) ==
    CASE k = 1 -> ~HasColumn(F, "party_cd")
      [] k = 2 -> ~HasColumn(F, "county") \/ ~HasColumn(F, "party_cd")
      [] k = 3 -> /\ HasColumn(F, "birth_year")
                  /\ \/ \E i \in DOMAIN F.rows : IsObj(F.rows[i]["birth_year"])
                     \/ ~HasColumn(F, "party_cd")
                     \/ ~HasColumn(F, "county")
      [] k = 4 -> ~HasColumn(F, "county") \/ ~HasColumn(F, "party_cd")
      [] k = 5 -> \/ /\ HasColumn(F, "registr_dt")
                     /\ ~HasColumn(F, "party_cd") \/ ~HasColumn(F, "county")
                  \/ /\ HasColumn(F, "total_voters")
                     /\ ~HasColumn(F, "voter_status_desc")
      [] k = 6 -> ~HasColumn(F, "county") \/ ~HasColumn(F, "party_cd")

\* a variant of the order: any analysis that has not run yet
CanRunUnordered(k) == apc \in { "main", "any" } /\ k \notin Range(done)

\* an analysis may start: main() runs them 1 to 5; on their own they are
\* functions that can be called in any order, each at most once here
CanRun(k) ==
    \/ apc = "main" /\ done = [i \in 1..(k - 1) |-> i]
    \/ apc = "any" /\ k \notin Range(done)

\* lines 15-84
Analysis1 ==
    /\ CanRun(1)
    /\ ~Fails(1, combined_data)
    /\ combined_data' = Classified(combined_data)
    /\ a_reports' = Append(a_reports, Report(1, combined_data'))
    /\ a_written' = Append(a_written,
            [name |-> "analysis_1_urban_rural_classification.gpkg",
             frame |-> combined_data'])
    /\ done' = Append(done, 1)
    /\ UNCHANGED <<combined_file, apc, schools_gdf, nvars, gvars, jvars, evars, mvars>>

\* the position of row i in nlargest(20, 'density_score'): by falling score,
\* rows of equal score in the order of the frame
ScoreOf(F, i) == F.rows[i]["density_score"].val
RankOf(F, i) ==
    1 + Cardinality({ j \in DOMAIN F.rows :
                        \/ ScoreOf(F, j) > ScoreOf(F, i)
                        \/ ScoreOf(F, j) = ScoreOf(F, i) /\ j < i })

\* lines 100-112: a school at every fourth of the twenty densest voters
Schools(F) ==
    LET placed == { i \in DOMAIN F.rows : RankOf(F, i) <= 20 /\ (RankOf(F, i) - 1) % 4 = 0 }
        at(k) == CHOOSE i \in placed : (RankOf(F, i) - 1) \div 4 + 1 = k
    IN  [k \in 1..Cardinality(placed) |->
            [school_id |-> "School_" \o ToString(k),
             county |-> F.rows[at(k)]["county"],
             geometry |-> PointOf(F, at(k))]]

buffer_distances == <<1000, 2000, 5000>>

\* 100000 cos((2k + 1) pi / 64) for k = 0..15: the directions of the edges of
\* the polygon of 64 sides, 16 to the quarter circle, that buffer() puts
\* around a point with its corners on the circle, the first at angle 0
EdgeCosines ==
    <<99880, 98918, 97003, 94154, 90399, 85773, 80321, 74095,
      67156, 59570, 51410, 42756, 33689, 24298, 14673, 4907>>

Abs(n) == IF n < 0 THEN 0 - n ELSE n

\* a variant of the buffer with the first distance whatever is asked for
InBufferOfFirst(p, centre, distance) ==
    \A k \in 1..16 :
        Abs(p.x - centre.x) * EdgeCosines[k] + Abs(p.y - centre.y) * EdgeCosines[17 - k]
            < buffer_distances[1] * EdgeCosines[1]

\* predicate='within' against centre.buffer(distance): the point is on the
\* inner side of every edge of the polygon
InBuffer(p, centre, distance) ==
    \A k \in 1..16 :
        Abs(p.x - centre.x) * EdgeCosines[k] + Abs(p.y - centre.y) * EdgeCosines[17 - k]
            < distance * EdgeCosines[1]

\* a variant that keeps a voter for the smallest buffer that holds it
VotersInRing(F, schools, distance) ==
    { i \in DOMAIN F.rows :
        /\ \E k \in DOMAIN schools : InBuffer(PointOf(F, i), schools[k].geometry, distance)
        /\ \A smaller \in { d \in Range(buffer_distances) : d < distance } :
              \A k \in DOMAIN schools :
                  ~InBuffer(PointOf(F, i), schools[k].geometry, smaller) }

\* lines 122-126: the labels of the rows gpd.sjoin puts out
VotersInBuffer(F, schools, distance) ==
    { i \in DOMAIN F.rows :
        \E k \in DOMAIN schools : InBuffer(PointOf(F, i), schools[k].geometry, distance) }

BufferColumn(distance) == "within_" \o ToString(distance) \o "ft_school"

\* lines 118-149, the rounds of the loop from round d on
RECURSIVE Buffered(_, _, _)
Buffered(F, schools, d) ==
    IF d > Len(buffer_distances) THEN F
    ELSE Buffered(SetColumn(F, BufferColumn(buffer_distances[d]),
                            [i \in DOMAIN F.rows |->
                                Val(i \in VotersInBuffer(F, schools, buffer_distances[d]))]),
                  schools, d + 1)

\* lines 131-144: a report of property values for every distance whose
\* buffers hold a voter; the columns sjoin adds hold no 'parval'
BufferReports(F, schools) ==
    LET reporting == SelectSeq(buffer_distances,
                               LAMBDA d : VotersInBuffer(F, schools, d) # {})
    IN  [n \in DOMAIN reporting |-> Report(2, F)]

\* lines 86-160
Analysis2 ==
    /\ CanRun(2)
    /\ "density_score" \in Range(combined_data.columns)
    /\ ~Fails(2, combined_data)
    /\ schools_gdf' = Schools(combined_data)
    /\ combined_data' = Buffered(combined_data, schools_gdf', 1)
    /\ a_reports' = a_reports \o BufferReports(combined_data, schools_gdf')
    /\ a_written' = a_written \o
            << [name |-> "analysis_2_sample_schools.gpkg", frame |-> schools_gdf'],
               [name |-> "analysis_2_school_buffers.gpkg", frame |-> combined_data'] >>
    /\ done' = Append(done, 2)
    /\ UNCHANGED <<combined_file, apc, nvars, gvars, jvars, evars, mvars>>

\* line 100 on a frame without density_score: nlargest raises KeyError
Analysis2Fails ==
    /\ CanRun(2)
    /\ "density_score" \notin Range(combined_data.columns)
    /\ apc' = "failed"
    /\ UNCHANGED <<combined_file, combined_data, done, schools_gdf, a_written, a_reports,
                   nvars, gvars, jvars, evars, mvars>>

\* line 173 and lines 176-180 for one row: the age, and the group it falls in
AgeOf(birth_year) == IF birth_year.na THEN Null ELSE Val(2025 - birth_year.val)

\* a variant whose bounds belong to the group below
AgeGroupBoundsBelow(age) ==
    IF age.na THEN "Unknown"
    ELSE IF age.val > 65 THEN "Senior (65+)"
    ELSE IF age.val > 45 THEN "Middle Age (45-64)"
    ELSE IF age.val > 30 THEN "Young Adult (30-44)"
    ELSE "Young (18-29)"

AgeGroup(age) ==
    IF age.na THEN "Unknown"
    ELSE IF age.val >= 65 THEN "Senior (65+)"
    ELSE IF age.val >= 45 THEN "Middle Age (45-64)"
    ELSE IF age.val >= 30 THEN "Young Adult (30-44)"
    ELSE "Young (18-29)"

\* lines 172-211
Aged(F) ==
    IF "birth_year" \in Range(F.columns)
    THEN LET with_age == SetColumn(F, "age",
                            [i \in DOMAIN F.rows |-> AgeOf(F.rows[i]["birth_year"])])
         IN  SetColumn(with_age, "age_group",
                       [i \in DOMAIN F.rows |-> Val(AgeGroup(with_age.rows[i]["age"]))])
    ELSE SetColumn(F, "age_group", [i \in DOMAIN F.rows |-> Val("Unknown")])

\* lines 162-218
Analysis3 ==
    /\ CanRun(3)
    /\ ~Fails(3, combined_data)
    /\ combined_data' = Aged(combined_data)
    /\ a_reports' = IF HasColumn(combined_data, "birth_year")
                        THEN Append(a_reports, Report(3, combined_data'))
                        ELSE a_reports
    /\ a_written' = Append(a_written,
            [name |-> "analysis_3_age_demographics.gpkg", frame |-> combined_data'])
    /\ done' = Append(done, 3)
    /\ UNCHANGED <<combined_file, apc, schools_gdf, nvars, gvars, jvars, evars, mvars>>

\* combined_data['county'].unique(): the counties in the order they appear
RECURSIVE UniqueFrom(_, _, _)
UniqueFrom(F, i, seen) ==
    IF i > Len(F.rows) THEN seen
    ELSE UniqueFrom(F, i + 1,
                    IF F.rows[i]["county"].val \in Range(seen) THEN seen
                    ELSE Append(seen, F.rows[i]["county"].val))

RECURSIVE SumOver(_, _)
SumOver(f, S) ==
    IF S = {} THEN 0
    ELSE LET i == CHOOSE j \in S : TRUE IN f[i] + SumOver(f, S \ {i})

\* a variant that takes the mean over the voters of all counties
CenterOfAll(F, county) ==
    [sx |-> SumOver([i \in DOMAIN F.rows |-> PointOf(F, i).x], DOMAIN F.rows),
     sy |-> SumOver([i \in DOMAIN F.rows |-> PointOf(F, i).y], DOMAIN F.rows),
     n |-> Len(F.rows)]

\* lines 233-239: the mean of the coordinates of the voters of a county, kept
\* as the sums and the number of voters: the centre is (sx / n, sy / n)
CountyCenter(F, county) ==
    LET county_voters == { i \in DOMAIN F.rows : F.rows[i]["county"].val = county }
    IN  [sx |-> SumOver([i \in DOMAIN F.rows |-> PointOf(F, i).x], county_voters),
         sy |-> SumOver([i \in DOMAIN F.rows |-> PointOf(F, i).y], county_voters),
         n |-> Cardinality(county_voters)]

\* lines 245-249: voter_point.distance(center_point), kept as the pair
\* [sq, n] that stands for sqrt(sq) / n
DistanceToCenter(p, center) ==
    [sq |-> (center.n * p.x - center.sx) * (center.n * p.x - center.sx)
            + (center.n * p.y - center.sy) * (center.n * p.y - center.sy),
     n |-> center.n]

\* the order of two such distances
DistLE(a, b) == a.sq * b.n * b.n <= b.sq * a.n * a.n
DistLT(a, b) == a.sq * b.n * b.n < b.sq * a.n * a.n

\* the k-th smallest of the distances, k from 1
KthDistance(ds, k) ==
    CHOOSE v \in Range(ds) :
        /\ Cardinality({ j \in DOMAIN ds : DistLT(ds[j], v) }) < k
        /\ k <= Cardinality({ j \in DOMAIN ds : DistLE(ds[j], v) })

\* distance <= quantile(m / 4) for a distance of the column.  The quantile is
\* interpolated between the sorted distances lo and hi at the position
\* m (n - 1) / 4; no distance of the column lies strictly between lo and hi,
\* so a distance of the column is at most the quantile exactly when it is at
\* most lo.
AtMostQuantile(d, ds, m) == DistLE(d, KthDistance(ds, (m * (Len(ds) - 1)) \div 4 + 1))

\* lines 254-262
DistanceCategory(d, ds) ==
    IF AtMostQuantile(d, ds, 1) THEN "Very Close (0-25%)"
    ELSE IF AtMostQuantile(d, ds, 2) THEN "Close (25-50%)"
    ELSE IF AtMostQuantile(d, ds, 3) THEN "Far (50-75%)"
    ELSE "Very Far (75-100%)"

\* lines 229-262
Distanced(F) ==
    LET ds == [i \in DOMAIN F.rows |->
                  DistanceToCenter(PointOf(F, i), CountyCenter(F, F.rows[i]["county"].val))]
        with_distance == SetColumn(F, "distance_to_center",
                                   [i \in DOMAIN F.rows |-> Val(ds[i])])
    IN  SetColumn(with_distance, "distance_category",
                  [i \in DOMAIN F.rows |-> Val(DistanceCategory(ds[i], ds))])

\* lines 287-294
CentersFrame(F) ==
    LET counties == UniqueFrom(F, 1, <<>>)
    IN  [k \in DOMAIN counties |->
            [county |-> counties[k], geometry |-> CountyCenter(F, counties[k])]]

\* lines 220-303
Analysis4 ==
    /\ CanRun(4)
    /\ ~Fails(4, combined_data)
    /\ combined_data' = Distanced(combined_data)
    /\ a_reports' = Append(a_reports, Report(4, combined_data'))
    /\ a_written' = a_written \o
            << [name |-> "analysis_4_county_centers.gpkg",
                frame |-> CentersFrame(combined_data)],
               [name |-> "analysis_4_distance_to_centers.gpkg",
                frame |-> combined_data'] >>
    /\ done' = Append(done, 4)
    /\ UNCHANGED <<combined_file, apc, schools_gdf, nvars, gvars, jvars, evars, mvars>>

DigitValue ==
    [c \in Digits |->
        CHOOSE n \in 0..9 : <<"0","1","2","3","4","5","6","7","8","9">>[n + 1] = c]

RECURSIVE NumberOf(_)
NumberOf(ds) ==
    IF ds = <<>> THEN 0
    ELSE 10 * NumberOf(SubSeq(ds, 1, Len(ds) - 1)) + DigitValue[ds[Len(ds)]]

\* pd.to_datetime(..., errors='coerce') on one cell holding a date written
\* MM/DD/YYYY: the date, or NaT for a missing cell and for a text that is no
\* such date
to_datetime(cell) ==
    IF cell.na THEN Null
    ELSE LET t == cell.val
         IN  IF /\ Len(t) = 10
                /\ t[3] = "/" /\ t[6] = "/"
                /\ \A i \in {1, 2, 4, 5, 7, 8, 9, 10} : t[i] \in Digits
                /\ NumberOf(SubSeq(t, 1, 2)) \in 1..12
                /\ NumberOf(SubSeq(t, 4, 5)) \in 1..31
             THEN Val([year |-> NumberOf(SubSeq(t, 7, 10)),
                       month |-> NumberOf(SubSeq(t, 1, 2)),
                       day |-> NumberOf(SubSeq(t, 4, 5))])
             ELSE Null

\* line 318
YearOf(date) == IF date.na THEN Null ELSE Val(date.val.year)

\* lines 321-325
RegistrationPeriod(year) ==
    IF year.na THEN "Unknown"
    ELSE IF year.val >= 2020 THEN "2020-Present"
    ELSE IF year.val >= 2010 THEN "2010-2019"
    ELSE IF year.val >= 2000 THEN "2000-2009"
    ELSE "Before 2000"

\* lines 315-358
Registered(F) ==
    IF "registr_dt" \in Range(F.columns)
    THEN LET dates == [i \in DOMAIN F.rows |-> to_datetime(F.rows[i]["registr_dt"])]
             with_date == SetColumn(F, "registration_date", dates)
             with_year == SetColumn(with_date, "registration_year",
                                    [i \in DOMAIN F.rows |-> YearOf(dates[i])])
         IN  SetColumn(with_year, "registration_period",
                       [i \in DOMAIN F.rows |-> Val(RegistrationPeriod(YearOf(dates[i])))])
    ELSE SetColumn(F, "registration_period", [i \in DOMAIN F.rows |-> Val("Unknown")])

\* lines 305-374
Analysis5 ==
    /\ CanRun(5)
    /\ ~Fails(5, combined_data)
    /\ combined_data' = Registered(combined_data)
    /\ a_reports' = a_reports
    /\ a_written' = Append(a_written,
            [name |-> "analysis_5_registration_patterns.gpkg", frame |-> combined_data'])
    /\ done' = Append(done, 5)
    /\ UNCHANGED <<combined_file, apc, schools_gdf, nvars, gvars, jvars, evars, mvars>>

\* rows of a combined dataset: position, county, birth year, registration date
DateTexts ==
    [ y1998 |-> <<"0","3","/","1","5","/","1","9","9","8">>,
      y2020 |-> <<"1","1","/","0","2","/","2","0","2","0">>,
      not_a_date |-> <<"u","n","k","n","o","w","n">>,
      last_of_1999 |-> <<"1","2","/","3","1","/","1","9","9","9">>,
      first_of_2000 |-> <<"0","1","/","0","1","/","2","0","0","0">>,
      last_of_2009 |-> <<"1","2","/","3","1","/","2","0","0","9">>,
      first_of_2010 |-> <<"0","1","/","0","1","/","2","0","1","0">>,
      last_of_2019 |-> <<"1","2","/","3","1","/","2","0","1","9">>,
      first_of_2020 |-> <<"0","1","/","0","1","/","2","0","2","0">>,
      no_such_month |-> <<"1","3","/","4","0","/","2","0","2","0">> ]

RowProfiles ==
    { [spot |-> <<0, 0>>, county |-> "Pitt", birth_year |-> Val(2000),
       registr_dt |-> Val(DateTexts.y1998)],
      [spot |-> <<600, 800>>, county |-> "Pitt", birth_year |-> Val(1960),
       registr_dt |-> Val(DateTexts.y2020)],
      [spot |-> <<300, 400>>, county |-> "Beaufort", birth_year |-> Null,
       registr_dt |-> Val(DateTexts.not_a_date)],
      [spot |-> <<0, 0>>, county |-> "Beaufort", birth_year |-> Val(1990),
       registr_dt |-> Null] }

\* the columns of a combined dataset that lacks the birth year and the
\* registration date
ColumnsWithoutDates ==
    SelectSeq(CombinedColumns, LAMBDA c : c \notin { "birth_year", "registr_dt" })

ProfileRow(columns, profile) ==
    [c \in Range(columns) |->
        IF c = "geometry" THEN Val(Spot(WorkingCRS, profile.spot[1], profile.spot[2]))
        ELSE IF c = "county" THEN Val(profile.county)
        ELSE IF c = "birth_year" THEN profile.birth_year
        ELSE IF c = "registr_dt" THEN profile.registr_dt
        ELSE IF c = "party_cd" THEN Val("DEM")
        ELSE IF c = "voter_status_desc" THEN Val("ACTIVE")
        ELSE Null]

MaxOrderRows == 2

ProfileFrames ==
    { [columns |-> columns,
       rows |-> [i \in DOMAIN profiles |-> ProfileRow(columns, profiles[i])]] :
        columns \in { CombinedColumns, ColumnsWithoutDates },
        profiles \in SeqsUpTo(RowProfiles, MaxOrderRows) \ { <<>> } }

\* the five analyses as main() chains them
InMainOrder(F) ==
    LET classified == Classified(F)
    IN  Registered(Distanced(Aged(Buffered(classified, Schools(classified), 1))))

\* the analyses called one after the other in any order, each once
OrderInit ==
    /\ combined_file \in ProfileFrames
    /\ combined_data = combined_file
    /\ apc = "any"
    /\ done = <<>>
    /\ schools_gdf = <<>>
    /\ a_written = <<>>
    /\ a_reports = <<>>
    /\ NormIdle
    /\ GeoIdle
    /\ JoinIdle
    /\ FilesIdle
    /\ MainIdle

OrderNext ==
    \/ Analysis1
    \/ Analysis2
    \/ Analysis2Fails
    \/ Analysis3
    \/ Analysis4
    \/ Analysis5

OrderSpec == OrderInit /\ [][OrderNext]_vars

\* positions in feet: a voter, one 999.2 feet from it in the direction of the
\* middle of an edge of its buffers, two at 2000 feet exactly (one on a
\* corner of the buffer), one at 3000 feet and one far from all of them
DensitySpots ==
    { <<0, 0>>, <<998, 49>>, <<2000, 0>>, <<1200, 1600>>, <<0, 3000>>, <<9000, 0>> }

MaxPoints == 5

DensityRow(spot) ==
    [c \in Range(CombinedColumns) |->
        IF c = "geometry" THEN Val(Spot(WorkingCRS, spot[1], spot[2]))
        ELSE IF c = "county" THEN Val(IF spot[1] < 5000 THEN "Pitt" ELSE "Beaufort")
        ELSE IF c = "party_cd" THEN Val("UNA")
        ELSE IF c = "birth_year" THEN Val(1980)
        ELSE IF c = "voter_status_desc" THEN Val("ACTIVE")
        ELSE Null]

DensityFrames ==
    { [columns |-> CombinedColumns,
       rows |-> [i \in DOMAIN spots |-> DensityRow(spots[i])]] :
        spots \in SeqsUpTo(DensitySpots, MaxPoints) \ { <<>> } }

DensityInit ==
    /\ combined_file \in DensityFrames
    /\ combined_data = combined_file
    /\ apc = "main"
    /\ done = <<>>
    /\ schools_gdf = <<>>
    /\ a_written = <<>>
    /\ a_reports = <<>>
    /\ NormIdle
    /\ GeoIdle
    /\ JoinIdle
    /\ FilesIdle
    /\ MainIdle

DensityNext == Analysis1 \/ Analysis2

DensitySpec == DensityInit /\ [][DensityNext]_vars

\* analysis 4 called on its own: voters of two counties at positions that
\* give distances of several sizes
CenterSpots == { <<0, 0>>, <<300, 400>>, <<600, 800>>, <<0, 500>> }

MaxCenterRows == 4

CenterRow(spot, county) ==
    [c \in Range(CombinedColumns) |->
        IF c = "geometry" THEN Val(Spot(WorkingCRS, spot[1], spot[2]))
        ELSE IF c = "county" THEN Val(county)
        ELSE IF c = "party_cd" THEN Val("REP")
        ELSE IF c = "birth_year" THEN Val(1975)
        ELSE IF c = "voter_status_desc" THEN Val("ACTIVE")
        ELSE Null]

CenterFrames ==
    { [columns |-> CombinedColumns,
       rows |-> [i \in DOMAIN placed |-> CenterRow(placed[i][1], placed[i][2])]] :
        placed \in SeqsUpTo(CenterSpots \X CountyNames, MaxCenterRows) \ { <<>> } }

CenterInit ==
    /\ combined_file \in CenterFrames
    /\ combined_data = combined_file
    /\ apc = "any"
    /\ done = <<>>
    /\ schools_gdf = <<>>
    /\ a_written = <<>>
    /\ a_reports = <<>>
    /\ NormIdle
    /\ GeoIdle
    /\ JoinIdle
    /\ FilesIdle
    /\ MainIdle

CenterNext == Analysis4

CenterSpec == CenterInit /\ [][CenterNext]_vars

\* analyses 3 and 5 called on their own: birth years and registration dates
\* on both sides of every bound, missing ones, and texts that are no date
BucketProfiles ==
    { [birth_year |-> Val(1996), registr_dt |-> Val(DateTexts.last_of_1999)],
      [birth_year |-> Val(1995), registr_dt |-> Val(DateTexts.first_of_2000)],
      [birth_year |-> Val(1981), registr_dt |-> Val(DateTexts.last_of_2009)],
      [birth_year |-> Val(1980), registr_dt |-> Val(DateTexts.first_of_2010)],
      [birth_year |-> Val(1961), registr_dt |-> Val(DateTexts.last_of_2019)],
      [birth_year |-> Val(1960), registr_dt |-> Val(DateTexts.first_of_2020)],
      [birth_year |-> Null, registr_dt |-> Val(DateTexts.not_a_date)],
      [birth_year |-> Val(2010), registr_dt |-> Val(DateTexts.no_such_month)],
      [birth_year |-> Val(1900), registr_dt |-> Null] }

MaxBucketRows == 2

BucketRow(columns, profile) ==
    [c \in Range(columns) |->
        IF c = "geometry" THEN Val(Spot(WorkingCRS, 0, 0))
        ELSE IF c = "county" THEN Val("Pitt")
        ELSE IF c = "birth_year" THEN profile.birth_year
        ELSE IF c = "registr_dt" THEN profile.registr_dt
        ELSE IF c = "party_cd" THEN Val("DEM")
        ELSE IF c = "voter_status_desc" THEN Val("ACTIVE")
        ELSE Null]

BucketFrames ==
    { [columns |-> columns,
       rows |-> [i \in DOMAIN profiles |-> BucketRow(columns, profiles[i])]] :
        columns \in { CombinedColumns, ColumnsWithoutDates },
        profiles \in SeqsUpTo(BucketProfiles, MaxBucketRows) \ { <<>> } }

BucketInit ==
    /\ combined_file \in BucketFrames
    /\ combined_data = combined_file
    /\ apc = "any"
    /\ done = <<>>
    /\ schools_gdf = <<>>
    /\ a_written = <<>>
    /\ a_reports = <<>>
    /\ NormIdle
    /\ GeoIdle
    /\ JoinIdle
    /\ FilesIdle
    /\ MainIdle

BucketNext == Analysis3 \/ Analysis5

BucketSpec == BucketInit /\ [][BucketNext]_vars

----------------------------------------------------------------------------
(* main() of additional_analyses.py: the combined dataset is read when its
   file exists, the five analyses and create_summary_report run one after the
   other inside one try, and the first exception ends the run. *)

\* the frame an analysis leaves behind when it raises: combined_data with
\* the columns the analysis had set before the line that raises
AtRaise(k, F) ==
    CASE k = 1 -> Classified(F)
      [] k = 2 -> F
      [] k = 3 -> IF \E i \in DOMAIN F.rows : IsObj(F.rows[i]["birth_year"])
                  THEN F ELSE Aged(F)
      [] k = 4 -> IF HasColumn(F, "county") THEN Distanced(F) ELSE F
      [] k = 5 -> Registered(F)

\* an exception leaves analysis k; in main() the except of lines 501-504
\* takes it and the run is over
AnalysisRaises ==
    \E k \in 1..5 :
        /\ CanRun(k)
        /\ k = 2 => HasColumn(combined_data, "density_score")
        /\ Fails(k, combined_data)
        /\ combined_data' = AtRaise(k, combined_data)
        /\ a_reports' = IF /\ k = 3
                           /\ HasColumn(combined_data, "party_cd")
                           /\ combined_data' # combined_data
                        THEN Append(a_reports, Report(3, combined_data'))
                        ELSE a_reports
        /\ apc' = "failed"
        /\ UNCHANGED <<combined_file, done, schools_gdf, a_written,
                       nvars, gvars, jvars, evars, mvars>>

\* lines 376-466; the columns it reads without asking are those analysis 1
\* and analysis 2 read
create_summary_report ==
    /\ CanRun(6)
    /\ HasColumn(combined_data, "county")
    /\ HasColumn(combined_data, "party_cd")
    /\ a_reports' = Append(a_reports, Report(6, combined_data))
    /\ a_written' = Append(a_written,
            [name |-> "spatial_analysis_summary_report.txt",
             frame |-> [total_voters |-> Len(combined_data.rows),
                        counties |-> UniqueFrom(combined_data, 1, <<>>)]])
    /\ done' = Append(done, 6)
    /\ UNCHANGED <<combined_file, combined_data, apc, schools_gdf,
                   nvars, gvars, jvars, evars, mvars>>

\* lines 480-490: main() returns when the combined file is not there, and
\* reads it otherwise
LoadCombined ==
    /\ apc = "start"
    /\ IF "combined_file" \in missing
       THEN apc' = "absent" /\ combined_data' = combined_data
       ELSE apc' = "main" /\ combined_data' = combined_file
    /\ UNCHANGED <<combined_file, done, schools_gdf, a_written, a_reports,
                   nvars, gvars, jvars, evars, mvars>>

\* the columns of the combined file: what the voters and the parcels of the
\* two counties carried, with the property value under several names, under
\* two names at once and not at all, and without the party
WithValueColumns(value_columns) ==
    SelectSeq(CombinedColumns, LAMBDA c : c \notin { "PARVAL", "geometry" })
        \o value_columns \o <<"geometry">>

DerivedColumnSets ==
    { CombinedColumns,
      ColumnsWithoutDates,
      SelectSeq(CombinedColumns, LAMBDA c : c # "party_cd"),
      WithValueColumns(<<"Land_Value", "PARVAL">>),
      WithValueColumns(<<"TOTAL_VALUE">>),
      WithValueColumns(<<"ParVal_2024">>),
      WithValueColumns(<<"ACRES">>) }

\* the birth years as the file holds them: numbers, or text
YearTypes == { "int64", "object" }

DerivedRow(columns, profile, year_type) ==
    [c \in Range(columns) |->
        IF c = "birth_year" /\ year_type = "object" /\ ~profile.birth_year.na
        THEN Obj(<<"U","N","K">>)
        ELSE ProfileRow(columns, profile)[c]]

MaxDerivedRows == 2

DerivedFrames ==
    { [columns |-> columns,
       rows |-> [i \in DOMAIN profiles |-> DerivedRow(columns, profiles[i], year_type)]] :
        columns \in DerivedColumnSets,
        profiles \in SeqsUpTo(RowProfiles, MaxDerivedRows) \ { <<>> },
        year_type \in YearTypes }

DerivedInit ==
    /\ \/ missing = { "combined_file" } /\ combined_file = <<>>
       \/ missing = {} /\ combined_file \in DerivedFrames
    /\ combined_data = <<>>
    /\ apc = "start"
    /\ done = <<>>
    /\ schools_gdf = <<>>
    /\ a_written = <<>>
    /\ a_reports = <<>>
    /\ raw = <<>> /\ tried = <<>> /\ encoding = <<>> /\ decoded = <<>>
    /\ NormIdle
    /\ GeoIdle
    /\ JoinIdle
    /\ MainIdle

DerivedNext ==
    \/ LoadCombined
    \/ Analysis1
    \/ Analysis2
    \/ Analysis3
    \/ Analysis4
    \/ Analysis5
    \/ create_summary_report
    \/ AnalysisRaises

DerivedSpec == DerivedInit /\ [][DerivedNext]_vars

----------------------------------------------------------------------------
(* main() of geocoding.py: the two counties one after the other, each call
   inside its own try.  The variables of ultra_fast_geocode_county hold the
   call that is running; `written` is the output directory and is kept from
   one call to the next. *)

Counties == <<"Pitt", "Beaufort">>

OakVoter == [voter_status_desc |-> "ACTIVE", res_street_address |-> TextCell(OakStreet)]
ElmVoter == [voter_status_desc |-> "ACTIVE", res_street_address |-> TextCell(ElmRoad)]
OakLayer(schema, crs) ==
    [columns |-> schema, crs |-> crs, rows |-> <<RefRow(schema, crs, 1, TextCell(OakSt))>>]

\* what a county's call finds on disk: a voter that matches; a missing voter
\* file; a missing address layer; a layer without address column; a layer
\* without reference system; a voter that matches nothing
GeoInputs ==
    { [voter_file |-> <<OakVoter>>, addresses |-> OakLayer(WithAddressColumn, "EPSG:4326"),
       raw |-> <<195, 169>>, missing |-> {}],
      [voter_file |-> <<OakVoter>>, addresses |-> OakLayer(WithAddressColumn, WorkingCRS),
       raw |-> PlainBytes, missing |-> {"voter_file"}],
      [voter_file |-> <<OakVoter>>, addresses |-> OakLayer(WithAddressColumn, WorkingCRS),
       raw |-> <<233>>, missing |-> {"address_gdb"}],
      [voter_file |-> <<OakVoter>>, addresses |-> OakLayer(NoAddressColumn, WorkingCRS),
       raw |-> PlainBytes, missing |-> {}],
      [voter_file |-> <<OakVoter>>, addresses |-> OakLayer(WithAddressColumn, NoCRS),
       raw |-> PlainBytes, missing |-> {}],
      [voter_file |-> <<ElmVoter>>, addresses |-> OakLayer(WithAddressColumn, WorkingCRS),
       raw |-> PlainBytes, missing |-> {}] }

\* the call of ultra_fast_geocode_county on what is on disk for one county
GeoCall(input) ==
    /\ voter_file' = input.voter_file
    /\ addresses' = input.addresses
    /\ raw' = input.raw
    /\ missing' = input.missing
    /\ pc' = "load"
    /\ voters' = <<>>
    /\ active_voters' = <<>>
    /\ addr_col' = <<>>
    /\ ref_clean' = <<>>
    /\ idx' = 1
    /\ addr_lookup' = <<>>
    /\ matches' = <<>>
    /\ matched_count' = 0
    /\ success_rate' = <<>>
    /\ voters_gdf' = <<>>
    /\ ret' = "running"
    /\ tried' = <<>> /\ encoding' = <<>> /\ decoded' = <<>>
    /\ UNCHANGED written

\* a variant of main() with one try around both calls: an exception ends
\* the run of the counties
AfterCountyOneTry(county, outcome) ==
    IF outcome = "raised" \/ county = Len(Counties) THEN "end" ELSE "county"

\* lines 273-294: after a call returned, or raised and the except clause
\* printed the error, main() goes on to the next county, then to its end
AfterCounty(county, outcome) == IF county = Len(Counties) THEN "end" ELSE "county"

\* lines 273-294: a call of main() is over, by return or by exception
GeoCountyReturns ==
    /\ main.script = "geocoding"
    /\ main.step = "county"
    /\ pc \in { "done", "error" }
    /\ LET step == AfterCounty(main.county, ret)
       IN  /\ main' = [main EXCEPT
                         !.step = step,
                         !.county = IF step = "county" THEN @ + 1 ELSE @,
                         !.reported = IF ret = "raised" THEN Append(@, Counties[main.county])
                                      ELSE @,
                         !.outcomes = Append(@, [ret |-> ret, files |-> Len(written)])]
           /\ IF step = "county"
              THEN GeoCall(main.inputs[main.county + 1])
              ELSE UNCHANGED <<gvars, evars>>
    /\ UNCHANGED <<nvars, jvars, avars>>

GeoMainInit ==
    /\ \E inputs \in [1..Len(Counties) -> GeoInputs] :
          /\ main = [script |-> "geocoding", step |-> "county", county |-> 1,
                     inputs |-> inputs, reported |-> <<>>, outcomes |-> <<>>,
                     all_joined_data |-> <<>>, combined |-> <<>>]
          /\ voter_file = inputs[1].voter_file
          /\ addresses = inputs[1].addresses
          /\ raw = inputs[1].raw
          /\ missing = inputs[1].missing
    /\ pc = "load"
    /\ voters = <<>>
    /\ active_voters = <<>>
    /\ addr_col = <<>>
    /\ ref_clean = <<>>
    /\ idx = 1
    /\ addr_lookup = <<>>
    /\ matches = <<>>
    /\ matched_count = 0
    /\ written = <<>>
    /\ success_rate = <<>>
    /\ voters_gdf = <<>>
    /\ ret = "running"
    /\ tried = <<>> /\ encoding = <<>> /\ decoded = <<>>
    /\ NormIdle
    /\ JoinIdle
    /\ AnalysisIdle

GeoMainNext == GeoNext \/ GeoCountyReturns

----------------------------------------------------------------------------
(* main() of spatial_joins.py: spatial_join_county and the party analysis of
   each county inside one try per county, then the combination of the
   frames collected. *)

main_parties == <<"DEM", "REP", "UNA">>

\* lines 92-122: None without a property-value column, KeyError without the
\* column party_cd, else the values of each main party that has any
analyze_political_property_values(joined_data) ==
    LET cols == SelectSeq(joined_data.columns, IsValueColumn)
    IN  IF cols = <<>> THEN [raised |-> FALSE, field |-> <<>>, stats |-> <<>>]
        ELSE IF "party_cd" \notin Range(joined_data.columns)
        THEN [raised |-> TRUE, field |-> <<cols[1]>>, stats |-> <<>>]
        ELSE LET valid_data ==
                     SelectSeq(joined_data.rows,
                               LAMBDA r : ~r[cols[1]].na /\ ~r["party_cd"].na)
                 OfParty(p) == SelectSeq(valid_data, LAMBDA r : r["party_cd"].val = p)
                 parties == SelectSeq(main_parties, LAMBDA p : OfParty(p) # <<>>)
             IN  [raised |-> FALSE,
                  field |-> <<cols[1]>>,
                  stats |-> [k \in DOMAIN parties |->
                               [party |-> parties[k],
                                values |-> [i \in DOMAIN OfParty(parties[k]) |->
                                              OfParty(parties[k])[i][cols[1]].val]]]]

\* the columns of the frames in the order they first appear
RECURSIVE AllColumns(_)
AllColumns(frames) ==
    IF frames = <<>> THEN <<>>
    ELSE LET before == AllColumns(SubSeq(frames, 1, Len(frames) - 1))
         IN  before \o SelectSeq(frames[Len(frames)].columns,
                                 LAMBDA c : c \notin Range(before))

RECURSIVE AllRows(_)
AllRows(frames) ==
    IF frames = <<>> THEN <<>>
    ELSE AllRows(SubSeq(frames, 1, Len(frames) - 1)) \o
         [i \in DOMAIN frames[Len(frames)].rows |->
             [c \in Range(AllColumns(frames)) |->
                 IF c \in Range(frames[Len(frames)].columns)
                 THEN frames[Len(frames)].rows[i][c]
                 ELSE Null]]

\* pd.concat(all_joined_data, ignore_index=True)
concat(frames) ==
    [columns |-> AllColumns(frames),
     crs |-> frames[1].crs,
     rows |-> [i \in DOMAIN AllRows(frames) |->
                 [c \in Range(AllColumns(frames)) |->
                     IF c \in DOMAIN AllRows(frames)[i] THEN AllRows(frames)[i][c] ELSE Null]],
     index |-> [i \in DOMAIN AllRows(frames) |-> i]]

PartyVoterRow(cols, spot, party) ==
    [col \in Range(cols) |->
        IF col = "geometry" THEN Val(Spot(WorkingCRS, spot[1], spot[2]))
        ELSE IF col = "party_cd" THEN party
        ELSE Val(spot[1] + spot[2])]

PartyLayer(cols, crs, party) ==
    [columns |-> cols, crs |-> crs,
     rows |-> <<PartyVoterRow(cols, <<250, 500>>, party),
                PartyVoterRow(cols, <<2000, 500>>, Val("REP"))>>]

ValuedParcels(cols) ==
    [columns |-> cols, crs |-> WorkingCRS,
     rows |-> <<ParcelRowOf(cols, WorkingCRS, <<<<0, 0, 1000, 1000>>, Val(150000)>>)>>]

\* what a county's call finds on disk: voters with their party and valued
\* parcels; no geocoded voter layer; voters without the column party_cd;
\* parcels without a value column; a voter layer without reference system;
\* an empty voter layer; a voter without party
JoinInputs ==
    { [voters_file |-> PartyLayer(<<"voter_reg_num", "party_cd", "geometry">>, WorkingCRS, Val("DEM")),
       parcels_file |-> ValuedParcels(<<"PARNO", "PARVAL", "geometry">>), missing |-> {}],
      [voters_file |-> PartyLayer(<<"voter_reg_num", "party_cd", "geometry">>, WorkingCRS, Val("DEM")),
       parcels_file |-> ValuedParcels(<<"PARNO", "PARVAL", "geometry">>),
       missing |-> {"voters_file"}],
      [voters_file |-> PartyLayer(<<"voter_reg_num", "geometry">>, WorkingCRS, Null),
       parcels_file |-> ValuedParcels(<<"PARNO", "PARVAL", "geometry">>), missing |-> {}],
      [voters_file |-> PartyLayer(<<"voter_reg_num", "party_cd", "geometry">>, WorkingCRS, Val("UNA")),
       parcels_file |-> ValuedParcels(<<"PARNO", "ACRES", "geometry">>), missing |-> {}],
      [voters_file |-> PartyLayer(<<"voter_reg_num", "party_cd", "geometry">>, NoCRS, Val("DEM")),
       parcels_file |-> ValuedParcels(<<"PARNO", "PARVAL", "geometry">>), missing |-> {}],
      [voters_file |-> [columns |-> <<"voter_reg_num", "party_cd", "geometry">>,
                        crs |-> WorkingCRS, rows |-> <<>>],
       parcels_file |-> ValuedParcels(<<"PARNO", "PARVAL", "geometry">>), missing |-> {}],
      [voters_file |-> PartyLayer(<<"party_cd", "geometry">>, "EPSG:4326", Null),
       parcels_file |-> ValuedParcels(<<"PARNO", "Land_Value", "PARVAL", "geometry">>),
       missing |-> {"parcels_file"}] }

\* the call of spatial_join_county on what is on disk for one county
JoinCall(name, input) ==
    /\ county_name' = name
    /\ voters_file' = input.voters_file
    /\ parcels_file' = input.parcels_file
    /\ missing' = input.missing
    /\ sj_pc' = "load"
    /\ sj_voters' = EmptyFrame /\ parcels' = EmptyFrame
    /\ parval_field' = <<>> /\ joined' = EmptyFrame /\ successful_joins' = 0
    /\ join_rate' = <<>> /\ value_stats' = <<>>
    /\ UNCHANGED sj_written

\* a variant that collects the frame of a county only after its party
\* analysis returned
CollectedAfterAnalysis(collected, frame, analysis) ==
    IF analysis.raised THEN collected ELSE Append(collected, frame)

\* lines 147, 164: all_joined_data.append(...) comes before the party analysis
Collected(collected, frame, analysis) == Append(collected, frame)

\* lines 140-170: the call of a county is over; its frame is collected and
\* analysed, or the except clause prints the error
JoinCountyReturns ==
    /\ main.script = "spatial_joins"
    /\ main.step = "county"
    /\ sj_pc \in { "done", "error" }
    /\ LET analysis == IF sj_pc = "done" THEN analyze_political_property_values(joined)
                       ELSE [raised |-> TRUE, field |-> <<>>, stats |-> <<>>]
           step == IF main.county = Len(Counties) THEN "combine" ELSE "county"
       IN  /\ main' = [main EXCEPT
                         !.step = step,
                         !.county = IF step = "county" THEN @ + 1 ELSE @,
                         !.all_joined_data =
                              IF sj_pc = "done" THEN Collected(@, joined, analysis) ELSE @,
                         !.reported = IF analysis.raised
                                      THEN Append(@, Counties[main.county]) ELSE @,
                         !.outcomes = Append(@, [ret |-> sj_pc, files |-> Len(sj_written),
                                                 stats |-> analysis.stats])]
           /\ IF step = "county"
              THEN JoinCall(Counties[main.county + 1], main.inputs[main.county + 1])
              ELSE UNCHANGED <<jvars, missing>>
    /\ UNCHANGED <<nvars, gvars, avars, raw, tried, encoding, decoded>>

\* a variant that combines whatever was collected
ShouldCombineAny(collected) == Len(collected) >= 1

\* line 173
ShouldCombine(collected) == Len(collected) = 2

\* lines 173-187: the combined file and the combined analysis, which no try
\* surrounds
Combine ==
    /\ main.script = "spatial_joins"
    /\ main.step = "combine"
    /\ IF ShouldCombine(main.all_joined_data)
       THEN LET combined_frame == concat(main.all_joined_data)
                analysis == analyze_political_property_values(combined_frame)
            IN  main' = [main EXCEPT
                           !.combined = Append(@, combined_frame),
                           !.outcomes = Append(@, [ret |-> "combined", files |-> Len(sj_written) + 1,
                                                   stats |-> analysis.stats]),
                           !.step = IF analysis.raised THEN "crashed" ELSE "end"]
       ELSE main' = [main EXCEPT !.step = "end"]
    /\ UNCHANGED <<nvars, gvars, jvars, avars, evars>>

JoinMainInit ==
    /\ \E inputs \in [1..Len(Counties) -> JoinInputs] :
          /\ main = [script |-> "spatial_joins", step |-> "county", county |-> 1,
                     inputs |-> inputs, reported |-> <<>>, outcomes |-> <<>>,
                     all_joined_data |-> <<>>, combined |-> <<>>]
          /\ voters_file = inputs[1].voters_file
          /\ parcels_file = inputs[1].parcels_file
          /\ missing = inputs[1].missing
    /\ county_name = Counties[1]
    /\ sj_pc = "load"
    /\ sj_voters = EmptyFrame /\ parcels = EmptyFrame
    /\ parval_field = <<>> /\ joined = EmptyFrame /\ successful_joins = 0
    /\ join_rate = <<>> /\ sj_written = <<>> /\ value_stats = <<>>
    /\ raw = <<>> /\ tried = <<>> /\ encoding = <<>> /\ decoded = <<>>
    /\ NormIdle
    /\ GeoIdle
    /\ AnalysisIdle

JoinMainNext == JoinNext \/ JoinCountyReturns \/ Combine

\* either script run from its start
MainInit == GeoMainInit \/ JoinMainInit
MainNext == GeoMainNext \/ JoinMainNext
\* the steps of either run but the two that clean addresses, and the
\* condition under which each of these two can be taken
MainSteps ==
    \/ LoadVoters \/ FilterActive \/ BuildLookupRow \/ MatchVoter \/ WriteOutput
    \/ WriteFails \/ NoMatches \/ GeoCountyReturns \/ JoinMainNext
AtCleanVoters == pc = "clean"
AtColumn == pc = "column"

\* a script runs on as long as it has a step to take: weak fairness of every
\* step, written for the two cleaning steps with their enabling condition
MainSpec ==
    /\ MainInit
    /\ [][MainNext]_vars
    /\ WF_vars(MainSteps)
    /\ ([]<>(~AtCleanVoters) \/ []<><<CleanVoters>>_vars)
    /\ ([]<>(~AtColumn) \/ []<><<CleanAddresses \/ NoColumn>>_vars)

----------------------------------------------------------------------------
(* Vocabulary of the properties *)

Alphabet ==
    Range(LowerCase) \cup Range(UpperCase) \cup Digits
        \cup { " ", "\t", "\n", "\r", ",", ".", "-", "#", "'", "_" }

\* the substitutions as the contract lists them
StatedAbbreviations ==
    { <<<<"S","T","R","E","E","T">>, <<"S","T">>>>, <<<<"A","V","E","N","U","E">>, <<"A","V","E">>>>, <<<<"R","O","A","D">>, <<"R","D">>>>,
      <<<<"D","R","I","V","E">>, <<"D","R">>>>, <<<<"L","A","N","E">>, <<"L","N">>>>, <<<<"C","O","U","R","T">>, <<"C","T">>>>,
      <<<<"C","I","R","C","L","E">>, <<"C","I","R">>>>, <<<<"P","L","A","C","E">>, <<"P","L">>>> }

LongForms == { p[1] : p \in StatedAbbreviations }

Abbreviation(w) ==
    IF w \in LongForms
    THEN (CHOOSE p \in StatedAbbreviations : p[1] = w)[2]
    ELSE w

\* the text uppercased with each of , . - # turned into a space
Uppercased(text) ==
    [i \in 1..Len(text) |->
        IF UpperChar(text[i]) \in { ",", ".", "-", "#" } THEN " "
        ELSE UpperChar(text[i])]

\* length of the longest prefix of s whose characters all satisfy / all fail \w
WordRun(s) ==
    CHOOSE n \in 0..Len(s) :
        /\ \A k \in 1..n : IsWordChar(s[k])
        /\ n = Len(s) \/ ~IsWordChar(s[n + 1])
TokenRun(s) ==
    CHOOSE n \in 0..Len(s) :
        /\ \A k \in 1..n : ~IsSpace(s[k])
        /\ n = Len(s) \/ IsSpace(s[n + 1])

\* the maximal runs of word characters of s, in order
RECURSIVE WordsOf(_)
WordsOf(s) ==
    IF s = <<>> THEN <<>>
    ELSE IF ~IsWordChar(s[1]) THEN WordsOf(Tail(s))
    ELSE <<SubSeq(s, 1, WordRun(s))>> \o WordsOf(SubSeq(s, WordRun(s) + 1, Len(s)))

\* the whitespace-separated tokens of s, in order
RECURSIVE TokensOf(_)
TokensOf(s) ==
    IF s = <<>> THEN <<>>
    ELSE IF IsSpace(s[1]) THEN TokensOf(Tail(s))
    ELSE <<SubSeq(s, 1, TokenRun(s))>> \o TokensOf(SubSeq(s, TokenRun(s) + 1, Len(s)))

\* a token with each of its whole words abbreviated
RECURSIVE AbbreviateToken(_)
AbbreviateToken(tok) ==
    IF tok = <<>> THEN <<>>
    ELSE IF ~IsWordChar(tok[1]) THEN <<tok[1]>> \o AbbreviateToken(Tail(tok))
    ELSE Abbreviation(SubSeq(tok, 1, WordRun(tok)))
            \o AbbreviateToken(SubSeq(tok, WordRun(tok) + 1, Len(tok)))

RECURSIVE JoinWithSpace(_)
JoinWithSpace(toks) ==
    IF toks = <<>> THEN <<>>
    ELSE IF Len(toks) = 1 THEN toks[1]
    ELSE toks[1] \o <<" ">> \o JoinWithSpace(Tail(toks))

\* the canonical key as the contract describes it
Described(text) ==
    LET toks == TokensOf(Uppercased(text))
    IN  JoinWithSpace([i \in 1..Len(toks) |-> AbbreviateToken(toks[i])])

----------------------------------------------------------------------------
(* Properties of the normalizer, checked under NormSpec *)

\* C1: the normalizer is idempotent: cleaning the result of a cleaning
\* returns that result.
C1_Idempotent == npc = "recleaned" => twice = once

C1_Witness ==
    /\ npc = "recleaned"
    /\ addr = TextCell(ExampleAddress)
    /\ once = ExampleClean
    /\ twice = ExampleClean

\* C2: for every text input the result is the input uppercased, with , . - #
\* turned into spaces, each whole word STREET, AVENUE, ROAD, DRIVE, LANE, COURT,
\* CIRCLE, PLACE abbreviated, and whitespace runs collapsed to one space and
\* trimmed; "123 Main Street, Apt #4" gives "123 MAIN ST APT 4".
C2_AsDescribed ==
    (npc = "cleaned" /\ ~addr.na) =>
        /\ once = Described(addr.text)
        /\ addr.text = ExampleAddress => once = ExampleClean

C2_Witness ==
    /\ npc = "cleaned"
    /\ addr = TextCell(AllLongForms)
    /\ once = <<"9"," ","A","V","E"," ","R","D"," ","L","N"," ","C","I","R"," ","P","L">>

\* C3: the normalizer never fails: a missing input gives the empty string and
\* every other input gives a string, possibly empty.
C3_AlwaysAString ==
    npc = "cleaned" =>
        /\ addr.na => once = <<>>
        /\ DOMAIN once = 1..Len(once)
        /\ \A i \in DOMAIN once : once[i] \in Alphabet

C3_Witness ==
    /\ npc = "cleaned"
    /\ addr = NoneCell
    /\ once = <<>>

\* C4: the substitutions touch whole words only: a word of the input that is
\* not itself one of the long forms, even if it contains one, comes out
\* unaltered.
C4_WholeWordsOnly ==
    (npc = "cleaned" /\ ~addr.na) =>
        LET before == WordsOf(Uppercased(addr.text))
            after  == WordsOf(once)
        IN  /\ Len(after) = Len(before)
            /\ \A i \in 1..Len(before) :
                   before[i] \notin LongForms => after[i] = before[i]

C4_Witness ==
    /\ npc = "cleaned"
    /\ addr = TextCell(PartialWords)
    /\ once = <<"S","T","R","E","E","T","E","R"," ","D","R","I","V","E","W","A","Y"," ","C","O","U","R","T","Y","A","R","D">>

----------------------------------------------------------------------------
(* Properties of the geocoder, checked under GeoSpec *)

\* the address column was found, and the loop over the reference rows is over
LookupBuilt == addr_col # <<>> /\ pc \in { "match", "finish", "done" }

\* number of reference rows the lookup loop has been through
RowsDone ==
    IF addr_col = <<>> THEN 0
    ELSE IF pc = "lookup" THEN idx - 1
    ELSE Len(addresses.rows)

\* canonical key of reference row i: addresses['clean_address']
RefKey(i) == ref_clean[i]

\* first reference row with the canonical key of row i
FirstRowWith(i) ==
    CHOOSE j \in 1..i : RefKey(j) = RefKey(i) /\ \A k \in 1..(j - 1) : RefKey(k) # RefKey(i)

LookupKeys == { addr_lookup[i].key : i \in 1..Len(addr_lookup) }

\* C5: first-seen wins: at every point of the loop over the reference rows,
\* each non-empty canonical key seen so far is mapped to the coordinate of the
\* first row that has it, so no later row with the key changes the entry.
C5_FirstSeenWins ==
    \A i \in 1..RowsDone :
        RefKey(i) # <<>> =>
            /\ Cardinality({ n \in 1..Len(addr_lookup) : addr_lookup[n].key = RefKey(i) }) = 1
            /\ \A n \in 1..Len(addr_lookup) :
                   addr_lookup[n].key = RefKey(i) =>
                       /\ addr_lookup[n].x = addresses.rows[FirstRowWith(i)].geometry.x
                       /\ addr_lookup[n].y = addresses.rows[FirstRowWith(i)].geometry.y
                       /\ addr_lookup[n].geometry = addresses.rows[FirstRowWith(i)].geometry

C5_Witness ==
    /\ pc = "done"
    /\ Len(ref_clean) = 2
    /\ RefKey(1) = OakSt /\ RefKey(2) = OakSt
    /\ addresses.rows[1].geometry # addresses.rows[2].geometry
    /\ Len(addr_lookup) = 1
    /\ addr_lookup[1].x = 100 /\ addr_lookup[1].y = 200

\* C6: the lookup never holds the empty key; once built, its keys are exactly
\* the non-empty canonical keys of the reference rows; and no voter whose
\* address is missing or normalizes to the empty string is matched.
C6_NoEmptyKey ==
    /\ <<>> \notin LookupKeys
    /\ LookupBuilt =>
           LookupKeys = { RefKey(i) : i \in 1..Len(addresses.rows) } \ { <<>> }
    /\ \A i \in 1..Len(matches) :
           /\ ~matches[i].res_street_address.na
           /\ matches[i].clean_address # <<>>
    /\ \A i \in 1..Len(voters_gdf) :
           /\ ~voters_gdf[i].res_street_address.na
           /\ voters_gdf[i].clean_address # <<>>

C6_Witness ==
    /\ pc = "done"
    /\ ret = "gdf"
    /\ \E i \in 1..Len(addresses.rows) : RefKey(i) = <<>>
    /\ \E i \in 1..Len(active_voters) : active_voters[i].res_street_address = NaNCell
    /\ Len(matches) < Len(active_voters)

\* C7: only voters whose status is exactly ACTIVE are considered: every row
\* of the matches and of the geocoded output has status ACTIVE, and the
\* denominator of the match rate is the number of ACTIVE voters read.
C7_ActiveOnly ==
    /\ \A i \in 1..Len(matches) : matches[i].voter_status_desc = "ACTIVE"
    /\ \A i \in 1..Len(voters_gdf) : voters_gdf[i].voter_status_desc = "ACTIVE"
    /\ \A f \in 1..Len(written) : \A i \in 1..Len(written[f].rows) :
           written[f].rows[i].voter_status_desc = "ACTIVE"
    /\ \A r \in 1..Len(success_rate) :
           success_rate[r].den =
               Cardinality({ i \in 1..Len(voters) : voters[i].voter_status_desc = "ACTIVE" })

C7_Witness ==
    /\ pc = "done"
    /\ ret = "gdf"
    /\ \E i \in 1..Len(voters) :
           /\ voters[i].voter_status_desc = "INACTIVE"
           /\ enhanced_clean(voters[i].res_street_address) \in LookupKeys
    /\ success_rate[1].den < Len(voters)

\* the active voters whose canonical key the lookup holds, in input order
ActiveHits ==
    SelectSeq(active_voters, LAMBDA v : v.clean_address \in LookupKeys)

\* row r of an output carries voter v with the lookup's coordinate for its key
CarriesMatch(r, v) ==
    /\ r.voter_status_desc = v.voter_status_desc
    /\ r.res_street_address = v.res_street_address
    /\ r.clean_address = v.clean_address
    /\ r.clean_address = enhanced_clean(v.res_street_address)
    /\ r.matched = TRUE
    /\ \E n \in 1..Len(addr_lookup) :
           /\ addr_lookup[n].key = r.clean_address
           /\ addr_lookup[n].x = r.x
           /\ addr_lookup[n].y = r.y

\* C8: when the function is through, the geocoded output is exactly the
\* active voters whose canonical key is in the lookup, in input order, each
\* with the lookup's coordinate and matched = true; the others are dropped.
C8_ExactlyTheHits ==
    (pc = "done" /\ addr_col # <<>>) =>
        /\ Len(matches) = Len(ActiveHits)
        /\ \A i \in 1..Len(matches) : CarriesMatch(matches[i], ActiveHits[i])
        /\ ret = "gdf" =>
               /\ Len(voters_gdf) = Len(ActiveHits)
               /\ \A i \in 1..Len(voters_gdf) : CarriesMatch(voters_gdf[i], ActiveHits[i])
               /\ Len(written) = 1 /\ written[1].rows = voters_gdf
        /\ ret # "gdf" => ActiveHits = <<>> /\ voters_gdf = <<>> /\ written = <<>>

C8_Witness ==
    /\ pc = "done"
    /\ ret = "gdf"
    /\ Len(active_voters) = 2
    /\ active_voters[1].clean_address \notin LookupKeys
    /\ active_voters[2].clean_address \in LookupKeys
    /\ Len(voters_gdf) = 1
    /\ voters_gdf[1].res_street_address = active_voters[2].res_street_address

\* C9: the number of geocoded voters never exceeds the number of active
\* voters, and the match rate, once computed, lies in [0, 100].
C9_CountAndRate ==
    /\ matched_count <= Len(active_voters)
    /\ Len(matches) <= Len(active_voters)
    /\ Len(voters_gdf) <= Len(active_voters)
    /\ \A r \in 1..Len(success_rate) :
           /\ success_rate[r].den > 0
           /\ 0 <= success_rate[r].num
           /\ success_rate[r].num <= 100 * success_rate[r].den

C9_Witness ==
    /\ pc = "done"
    /\ Len(active_voters) = 2
    /\ matched_count = 1
    /\ success_rate = << [num |-> 100, den |-> 2] >>

\* the end-to-end scenario: one ACTIVE voter at "100 Oak Street", one
\* reference row with key "100 OAK ST" at (100, 200) in the working system
OakScenario ==
    /\ voter_file = << [voter_status_desc |-> "ACTIVE",
                        res_street_address |-> TextCell(OakStreet)] >>
    /\ addresses.crs = WorkingCRS
    /\ addr_col # <<>>
    /\ Len(addresses.rows) = 1
    /\ RefKey(1) = OakSt
    /\ addresses.rows[1].geometry = Point(WorkingCRS, 100, 200)

\* C10: in the end-to-end scenario the result is one geocoded point at
\* (100, 200) and a match rate of 100%.
C10_EndToEnd ==
    (pc = "done" /\ OakScenario) =>
        /\ ret = "gdf"
        /\ Len(voters_gdf) = 1
        /\ voters_gdf[1].clean_address = OakSt
        /\ voters_gdf[1].geometry = Point(WorkingCRS, 100, 200)
        /\ Len(success_rate) = 1
        /\ success_rate[1].num = 100 * success_rate[1].den

C10_Witness ==
    /\ pc = "done"
    /\ OakScenario
    /\ ret = "gdf"
    /\ Len(written) = 1

-----------------------------------------------------------------------------
(* Properties of spatial_join_county *)

JoinDone == sj_pc = "done"

\* the point of voter i and the shape of parcel j at the time of the join
VoterPoint(i) == sj_voters.rows[i]["geometry"].val
ParcelShape(j) == parcels.rows[j]["geometry"].val
InNoParcel(i) == \A j \in DOMAIN parcels.rows : ~Within(VoterPoint(i), ParcelShape(j))
InSomeParcel(i) == \E j \in DOMAIN parcels.rows : Within(VoterPoint(i), ParcelShape(j))

\* the columns of the output that hold what a parcel contributes
ParcelAttributes ==
    { "PARNO", "PARVAL", "Land_Value", "ACRES", "county_right" } \cap Range(joined.columns)

\* C11: the parcel join is a left outer join: every geocoded voter appears in
\* the output, and a voter within no parcel appears with null parcel
\* attributes.
C11_LeftOuter ==
    JoinDone =>
        \A i \in DOMAIN sj_voters.rows :
            /\ \E k \in DOMAIN joined.rows :
                  /\ joined.index[k] = i
                  /\ joined.rows[k]["geometry"] = sj_voters.rows[i]["geometry"]
                  /\ joined.rows[k]["voter_reg_num"] = sj_voters.rows[i]["voter_reg_num"]
            /\ InNoParcel(i) =>
                  \A k \in DOMAIN joined.rows :
                      joined.index[k] = i =>
                          \A c \in ParcelAttributes : joined.rows[k][c].na

C11_Witness ==
    /\ JoinDone
    /\ Len(parcels.rows) = 2
    /\ Len(sj_voters.rows) = 2
    /\ InNoParcel(1)
    /\ InSomeParcel(2)
    /\ ParcelAttributes # {}

\* C12: every row of the output carries the county_name parameter in its
\* county field, whatever county the voter row or the parcel row carried.
C12_CountyStamped ==
    JoinDone =>
        /\ "county" \in Range(joined.columns)
        /\ \A k \in DOMAIN joined.rows : joined.rows[k]["county"] = Val(county_name)
        /\ Len(sj_written) = 1
        /\ \A k \in DOMAIN sj_written[1].frame.rows :
              sj_written[1].frame.rows[k]["county"] = Val(county_name)

C12_Witness ==
    /\ JoinDone
    /\ "county" \in Range(voters_file.columns)
    /\ "county" \notin Range(parcels_file.columns)
    /\ county_name = "Pitt"
    /\ Len(joined.rows) = 2
    /\ InSomeParcel(1)

\* C13: the join success rate lies in [0, 100] for every input of voters and
\* parcels, including parcels that overlap each other.
C13_RateWithinBounds ==
    join_rate # <<>> =>
        /\ 0 <= join_rate[1].num
        /\ join_rate[1].num <= 100 * join_rate[1].den

\* C14: when the join is computed both layers are in EPSG:2264, and every
\* geocoded dataset the geocoder writes is in EPSG:2264, whatever systems the
\* layers were read in.
FrameInWorkingCRS(F) ==
    /\ F.crs = WorkingCRS
    /\ \A i \in DOMAIN F.rows : F.rows[i]["geometry"].val.crs = WorkingCRS

C14_WorkingCRS ==
    /\ sj_pc \in { "projected", "done" } =>
          FrameInWorkingCRS(sj_voters) /\ FrameInWorkingCRS(parcels)
    /\ (sj_pc = "error" /\ joined # EmptyFrame) =>
          FrameInWorkingCRS(sj_voters) /\ FrameInWorkingCRS(parcels)
    /\ JoinDone => FrameInWorkingCRS(joined)
    /\ \A k \in DOMAIN written :
          /\ written[k].crs = WorkingCRS
          /\ \A i \in DOMAIN written[k].rows :
                written[k].rows[i].geometry.crs = WorkingCRS

C14_Witness ==
    /\ JoinDone
    /\ voters_file.crs = "EPSG:4326"
    /\ parcels_file.crs = "EPSG:4326"
    /\ successful_joins > 0

\* the name of a column, upper-cased, holds the word
NameHolds(col, word) == Contains(Upper(ParcelColumnText[col]), word)
ValueCandidates ==
    { i \in DOMAIN parcels_file.columns :
        \/ NameHolds(parcels_file.columns[i], <<"P","A","R","V","A","L">>)
        \/ NameHolds(parcels_file.columns[i], <<"V","A","L","U","E">>) }

\* C15: the property-value field is the first parcel column whose name holds
\* "parval" or "value" in any case; when there is none only the value
\* statistics are skipped: the join, the county stamp and the output file are
\* still produced.
C15_ValueField ==
    /\ sj_pc \in { "loaded", "projected", "done" } =>
          IF ValueCandidates = {} THEN parval_field = <<>>
          ELSE /\ Len(parval_field) = 1
               /\ \E i \in ValueCandidates :
                     /\ parval_field[1] = parcels_file.columns[i]
                     /\ \A m \in ValueCandidates : i <= m
    /\ (JoinDone /\ ValueCandidates = {}) =>
          /\ value_stats = <<>>
          /\ Len(joined.rows) >= Len(sj_voters.rows)
          /\ Len(join_rate) = 1
          /\ \A k \in DOMAIN joined.rows : joined.rows[k]["county"] = Val(county_name)
          /\ sj_written = <<[county |-> county_name, frame |-> joined]>>
    /\ (JoinDone /\ ValueCandidates # {}) =>
          /\ Len(value_stats) = 1
          /\ value_stats[1].field = parval_field[1]

C15_Witness ==
    /\ JoinDone
    /\ ValueCandidates = {}
    /\ InSomeParcel(1)
    /\ Len(sj_written) = 1

-----------------------------------------------------------------------------
(* Properties of the density classification and of the school buffers *)

Ran(k) == k \in Range(done)
Records == DOMAIN combined_data.rows
RecordPoint(i) == combined_data.rows[i]["geometry"].val
Score(i) == combined_data.rows[i]["density_score"].val
Scores == [i \in Records |-> Score(i)]
TierOf(i) == combined_data.rows[i]["urban_rural"].val
WithTier(t) == { i \in Records : TierOf(i) = t }

\* the other records within the search radius, the bound included
OthersWithinRadius(i) ==
    { j \in Records \ {i} :
        SquaredDistance(RecordPoint(i), RecordPoint(j)) <= search_radius * search_radius }

\* C16: the density score of a record is the number of other records within
\* distance 2000 of it, the bound included; the record itself is the only one
\* left out, so other records at the very same coordinate count.
C16_CountsAllOthers ==
    Ran(1) => \A i \in Records : Score(i) = Cardinality(OthersWithinRadius(i))

\* C17 as stated: Urban exactly when the score reaches the 75th percentile,
\* Rural exactly when it does not exceed the 25th, Suburban otherwise.
C17_TiersAsStated ==
    Ran(1) =>
        LET p75 == Percentile4(Scores, 3)
            p25 == Percentile4(Scores, 1)
        IN  \A i \in Records :
                /\ TierOf(i) = "Urban" <=> 4 * Score(i) >= p75
                /\ TierOf(i) = "Rural" <=> 4 * Score(i) <= p25
                /\ TierOf(i) = "Suburban" <=> (4 * Score(i) < p75 /\ 4 * Score(i) > p25)

\* C17: every record gets exactly one tier: Rural when its score is at most
\* the 25th percentile, otherwise Urban when it is at least the 75th
\* percentile, otherwise Suburban; a record that meets both bounds, which
\* happens only when the two percentiles coincide, is Rural.
C17_RuralTakesPrecedence ==
    Ran(1) =>
        LET p75 == Percentile4(Scores, 3)
            p25 == Percentile4(Scores, 1)
        IN  \A i \in Records :
                /\ TierOf(i) \in { "Urban", "Rural", "Suburban" }
                /\ TierOf(i) = "Rural" <=> 4 * Score(i) <= p25
                /\ TierOf(i) = "Urban" <=> (4 * Score(i) >= p75 /\ 4 * Score(i) > p25)
                /\ (4 * Score(i) >= p75 /\ 4 * Score(i) <= p25) => p75 = p25

C17_Witness ==
    /\ Ran(1)
    /\ Len(combined_data.rows) = 5
    /\ Percentile4(Scores, 3) = Percentile4(Scores, 1)
    /\ WithTier("Urban") # {}
    /\ \E i \in Records : 4 * Score(i) = Percentile4(Scores, 3) /\ TierOf(i) = "Rural"

\* ceil(0.25 N)
QuarterOf(n) == (n + 3) \div 4

\* C18 as stated: at least ceil(0.25 N) records are Urban and at least
\* ceil(0.25 N) are Rural.
C18_BothTails ==
    Ran(1) =>
        /\ Cardinality(WithTier("Urban")) >= QuarterOf(Len(combined_data.rows))
        /\ Cardinality(WithTier("Rural")) >= QuarterOf(Len(combined_data.rows))

\* C18: at least ceil(0.25 N) records are Rural; at least ceil(0.25 N) are
\* Urban when the 75th percentile lies above the 25th, and when the two
\* coincide the Urban records are those whose score lies above them.
C18_Tails ==
    Ran(1) =>
        LET p75 == Percentile4(Scores, 3)
            p25 == Percentile4(Scores, 1)
        IN  /\ Cardinality(WithTier("Rural")) >= QuarterOf(Len(combined_data.rows))
            /\ p75 > p25 =>
                  Cardinality(WithTier("Urban")) >= QuarterOf(Len(combined_data.rows))
            /\ p75 = p25 =>
                  WithTier("Urban") = { i \in Records : 4 * Score(i) > p75 }

C18_Witness ==
    /\ Ran(1)
    /\ Len(combined_data.rows) = 5
    /\ Percentile4(Scores, 3) > Percentile4(Scores, 1)
    /\ Cardinality(WithTier("Urban")) = QuarterOf(5)
    /\ Cardinality(WithTier("Rural")) > 0

Flag(i, r) == combined_data.rows[i][BufferColumn(r)].val
Radii == Range(buffer_distances)
SchoolWithin(i, bound) ==
    \E k \in DOMAIN schools_gdf :
        SquaredDistance(RecordPoint(i), schools_gdf[k].geometry) < bound
SchoolAtMost(i, bound) ==
    \E k \in DOMAIN schools_gdf :
        SquaredDistance(RecordPoint(i), schools_gdf[k].geometry) <= bound

\* C20 as stated: the flag of radius r is true exactly when the record lies
\* strictly within distance r of some school.
C20_ExactDistance ==
    Ran(2) =>
        \A r \in Radii : \A i \in Records : Flag(i, r) <=> SchoolWithin(i, r * r)

\* C20: the flag of radius r is true exactly when the record lies inside the
\* 64-sided polygon buffer(r) draws around some school.  The polygon has its
\* corners on the circle of radius r, so a flagged record is at a distance
\* below r, and a record whose distance d has d^2 <= r^2 - r^2/400 (d up to
\* about 0.9987 r) is flagged.
C20_BufferPolygon ==
    Ran(2) =>
        \A r \in Radii : \A i \in Records :
            /\ Flag(i, r) \in BOOLEAN
            /\ Flag(i, r) <=>
                  \E k \in DOMAIN schools_gdf :
                      InBuffer(RecordPoint(i), schools_gdf[k].geometry, r)
            /\ Flag(i, r) => SchoolWithin(i, r * r)
            /\ SchoolAtMost(i, r * r - (r * r) \div 400) => Flag(i, r)

C20_Witness ==
    /\ Ran(2)
    /\ Len(schools_gdf) = 2
    /\ \E i \in Records :
          /\ SchoolWithin(i, 1000 * 1000)
          /\ ~Flag(i, 1000)
          /\ Flag(i, 2000)
    /\ \E i \in Records : ~Flag(i, 5000)

\* C19 as stated: the five analyses, run in any order, complete and yield
\* the same enriched dataset.
C19_AnyOrder ==
    /\ apc # "failed"
    /\ Len(done) = 5 => combined_data.rows = InMainOrder(combined_file).rows

\* C19: the analyses 1, 3, 4 and 5 read only geometry and input attributes,
\* and analysis 2 reads the density_score that analysis 1 writes.  A run
\* fails only when analysis 2 is called before analysis 1; every order in
\* which analysis 1 comes before analysis 2 yields the same columns with the
\* same values in every row as the order of main().
C19_DensityBeforeBuffers ==
    /\ apc = "failed" => ~Ran(1)
    /\ Ran(2) => Ran(1)
    /\ Len(done) = 5 =>
          /\ combined_data.rows = InMainOrder(combined_file).rows
          /\ Range(combined_data.columns) = Range(InMainOrder(combined_file).columns)
          /\ Len(combined_data.columns) = Len(InMainOrder(combined_file).columns)

C19_Witness ==
    /\ done = <<5, 4, 3, 1, 2>>
    /\ Len(combined_data.rows) = 2
    /\ combined_data.columns # InMainOrder(combined_file).columns
    /\ "birth_year" \in Range(combined_file.columns)
    /\ combined_data.rows[1]["age_group"] # combined_data.rows[2]["age_group"]

-----------------------------------------------------------------------------
(* Properties of the distance to the county centre *)

CountyOf(i) == combined_data.rows[i]["county"].val
SameCounty(i) == { j \in Records : CountyOf(j) = CountyOf(i) }
StoredDistance(i) == combined_data.rows[i]["distance_to_center"].val
DistanceCategoryOf(i) == combined_data.rows[i]["distance_category"].val

\* n^2 times the squared distance of record i to the mean of the n points of
\* the records in S
ScaledSquaredDistanceToMean(i, S) ==
    LET n == Cardinality(S)
        xs == [j \in Records |-> RecordPoint(j).x]
        ys == [j \in Records |-> RecordPoint(j).y]
    IN  (n * RecordPoint(i).x - SumOver(xs, S)) * (n * RecordPoint(i).x - SumOver(xs, S))
        + (n * RecordPoint(i).y - SumOver(ys, S)) * (n * RecordPoint(i).y - SumOver(ys, S))

\* the number of records, of any county, strictly nearer to their centre
NearerRecords(i) ==
    Cardinality({ j \in Records : DistLT(StoredDistance(j), StoredDistance(i)) })

\* the distance of record i is at most the quantile m / 4 of all distances:
\* at most m (N - 1) / 4 records lie strictly below it
UpToQuartile(i, m) == 4 * NearerRecords(i) <= m * (Len(combined_data.rows) - 1)

-----------------------------------------------------------------------------
(* Properties of the age groups and of the registration periods *)

AgeGroups ==
    { "Young (18-29)", "Young Adult (30-44)", "Middle Age (45-64)", "Senior (65+)" }
RegistrationPeriods == { "Before 2000", "2000-2009", "2010-2019", "2020-Present" }

\* the year each date text of the inputs is written for; the texts that are
\* no date have none
WrittenYear ==
    [ y1998 |-> <<1998>>, y2020 |-> <<2020>>, not_a_date |-> <<>>,
      last_of_1999 |-> <<1999>>, first_of_2000 |-> <<2000>>,
      last_of_2009 |-> <<2009>>, first_of_2010 |-> <<2010>>,
      last_of_2019 |-> <<2019>>, first_of_2020 |-> <<2020>>,
      no_such_month |-> <<>> ]

\* the year of the registration date of input record i, or <<>> when the
\* date is missing or no date
YearGiven(i) ==
    IF combined_file.rows[i]["registr_dt"].na THEN <<>>
    ELSE WrittenYear[CHOOSE k \in DOMAIN DateTexts :
                        DateTexts[k] = combined_file.rows[i]["registr_dt"].val]

BirthYearGiven(i) == combined_file.rows[i]["birth_year"]
AgeGroupOf(i) == combined_data.rows[i]["age_group"].val
PeriodOf(i) == combined_data.rows[i]["registration_period"].val

\* C22: with age = 2025 - birth year every record gets exactly one age group
\* (< 30, 30-44, 45-64, >= 65) and exactly one registration period (< 2000,
\* 2000-2009, 2010-2019, >= 2020); a record whose birth year is missing or
\* whose registration date is missing or no date gets Unknown, and neither
\* analysis fails.
C22_Buckets ==
    /\ apc # "failed"
    /\ (Ran(3) /\ "birth_year" \in Range(combined_file.columns)) =>
          \A i \in Records :
              IF BirthYearGiven(i).na THEN AgeGroupOf(i) = "Unknown"
              ELSE LET age == 2025 - BirthYearGiven(i).val
                   IN  /\ combined_data.rows[i]["age"] = Val(age)
                       /\ AgeGroupOf(i) \in AgeGroups
                       /\ AgeGroupOf(i) = "Young (18-29)" <=> age < 30
                       /\ AgeGroupOf(i) = "Young Adult (30-44)" <=> age \in 30..44
                       /\ AgeGroupOf(i) = "Middle Age (45-64)" <=> age \in 45..64
                       /\ AgeGroupOf(i) = "Senior (65+)" <=> age >= 65
    /\ (Ran(5) /\ "registr_dt" \in Range(combined_file.columns)) =>
          \A i \in Records :
              IF YearGiven(i) = <<>> THEN PeriodOf(i) = "Unknown"
              ELSE LET year == YearGiven(i)[1]
                   IN  /\ combined_data.rows[i]["registration_year"] = Val(year)
                       /\ PeriodOf(i) \in RegistrationPeriods
                       /\ PeriodOf(i) = "Before 2000" <=> year < 2000
                       /\ PeriodOf(i) = "2000-2009" <=> year \in 2000..2009
                       /\ PeriodOf(i) = "2010-2019" <=> year \in 2010..2019
                       /\ PeriodOf(i) = "2020-Present" <=> year >= 2020
    /\ (Ran(3) /\ "birth_year" \notin Range(combined_file.columns)) =>
          \A i \in Records : AgeGroupOf(i) = "Unknown"
    /\ (Ran(5) /\ "registr_dt" \notin Range(combined_file.columns)) =>
          \A i \in Records : PeriodOf(i) = "Unknown"

C22_Witness ==
    /\ Ran(3) /\ Ran(5)
    /\ Len(combined_data.rows) = 2
    /\ AgeGroupOf(1) = "Young Adult (30-44)" /\ BirthYearGiven(1) = Val(1995)
    /\ PeriodOf(1) = "2000-2009"
    /\ AgeGroupOf(2) = "Unknown" /\ PeriodOf(2) = "Unknown"
    /\ ~combined_file.rows[2]["registr_dt"].na

-----------------------------------------------------------------------------
(* Properties of the reading of the voter file *)

StatedEncodings == <<"utf-8", "latin-1", "cp1252", "iso-8859-1">>

\* the sample files that are UTF-8, with the text they hold
Utf8Samples == { <<<<65>>, <<65>>>>, <<<<195, 169>>, <<233>>>>, <<<<226, 130, 172>>, <<8364>>>> }
IsUtf8Sample == \E s \in Utf8Samples : s[1] = raw

VoterFileRead == pc \notin { "idle", "load" } /\ "voter_file" \notin missing

\* C23: the encodings are tried in the order UTF-8, Latin-1, CP1252,
\* ISO-8859-1, a later one only after every earlier one failed; the first
\* that decodes is used and none after it is tried; when all four fail the
\* geocoder raises and writes nothing.
C23_FirstThatDecodes ==
    VoterFileRead =>
        /\ tried = SubSeq(StatedEncodings, 1, Len(tried))
        /\ tried # <<>>
        /\ \A k \in 1..(Len(tried) - 1) : ~Decode(tried[k], raw).ok
        /\ IF \E k \in DOMAIN StatedEncodings : Decode(StatedEncodings[k], raw).ok
           THEN /\ encoding = <<tried[Len(tried)]>>
                /\ Decode(encoding[1], raw).ok
                /\ IF IsUtf8Sample
                   THEN encoding = <<"utf-8">> /\ <<raw, decoded>> \in Utf8Samples
                   ELSE encoding = <<"latin-1">> /\ decoded = raw
           ELSE /\ tried = StatedEncodings
                /\ encoding = <<>>
                /\ ret = "raised"
                /\ written = <<>>

C23_Witness ==
    /\ pc = "done"
    /\ ret = "gdf"
    /\ raw = <<233>>
    /\ tried = <<"utf-8", "latin-1">>
    /\ encoding = <<"latin-1">>
    /\ decoded = <<233>>

-----------------------------------------------------------------------------
(* Properties of main() of geocoding.py and of spatial_joins.py *)

InMain(script) == main.script = script
CountiesOver == IF main.script = "none" THEN 0 ELSE Len(main.outcomes)
Reported(k) == Counties[k] \in Range(main.reported)

\* what the call of a county does on its own inputs
GeocodingOf(input) ==
    IF input.missing # {} THEN "raised"
    ELSE IF input.addresses.columns = NoAddressColumn THEN "None"
    ELSE IF input.voter_file # <<OakVoter>> THEN "None"
    ELSE IF input.addresses.crs = NoCRS THEN "raised"
    ELSE "gdf"
JoinOf(input) ==
    IF \/ input.missing # {}
       \/ input.voters_file.crs = NoCRS
       \/ input.voters_file.rows = <<>>
    THEN "error"
    ELSE "done"
PartyAnalysisFailsOn(input) ==
    /\ "party_cd" \notin Range(input.voters_file.columns)
    /\ "PARVAL" \in Range(input.parcels_file.columns)

FailsAlone(k) ==
    IF InMain("geocoding") THEN GeocodingOf(main.inputs[k]) = "raised"
    ELSE JoinOf(main.inputs[k]) = "error" \/ PartyAnalysisFailsOn(main.inputs[k])

WritesAlone(k) ==
    IF InMain("geocoding") THEN GeocodingOf(main.inputs[k]) = "gdf"
    ELSE JoinOf(main.inputs[k]) = "done"

\* every county whose call is over was processed as its own inputs say,
\* whatever happened to the county before it, and it is reported exactly
\* when it failed
CountiesIndependent ==
    \A k \in 1..CountiesOver :
        k <= Len(Counties) =>
            /\ main.outcomes[k].ret =
                   IF InMain("geocoding") THEN GeocodingOf(main.inputs[k])
                   ELSE JoinOf(main.inputs[k])
            /\ Reported(k) <=> FailsAlone(k)
            /\ main.outcomes[k].files = Cardinality({ j \in 1..k : WritesAlone(j) })

RunAtEnd == main.script # "none" /\ main.step = "end"

\* C24: in the geocoding run and in the spatial-join run a failure while
\* processing one county is reported and skips only that county, the other
\* county is processed whichever of the two fails, and the run reaches its
\* end.
C24_FailureIsolated == [](CountiesIndependent) /\ <>RunAtEnd

\* what holds of both runs: the counties are independent, and the run reaches
\* its end unless the party analysis failed on both counties and then fails
\* on the combined frame
C24_IsolatedUpToCombine ==
    /\ [](CountiesIndependent)
    /\ <>(RunAtEnd \/ (main.script = "spatial_joins" /\ main.step = "crashed"))
    /\ []((main.script = "spatial_joins" /\ main.step = "crashed") =>
              (Reported(1) /\ Reported(2) /\ Len(main.all_joined_data) = 2))

C24_Witness ==
    /\ RunAtEnd
    /\ Reported(1) /\ ~Reported(2)
    /\ main.outcomes[2].files = 1

-----------------------------------------------------------------------------
(* Properties of what the geocoder returns and writes *)

CallOver == pc \in { "done", "error" }
AddressColumnPresent == "FullAddr" \in Range(addresses.columns)
SomeActiveVoterMatched == addr_col # <<>> /\ ActiveHits # <<>>
ReturnedAndWrote == ret = "gdf" /\ Len(written) = 1
NothingOut == success_rate = <<>> /\ written = <<>> /\ voters_gdf = <<>>
NoEmptyFile == \A f \in 1..Len(written) : Len(written[f].rows) >= 1

\* C25 as stated: the geocoder returns a dataset and writes the county's file
\* if and only if the reference data has an address-like column and at least
\* one active voter matched; otherwise it returns nothing, reports no match
\* rate and writes no file; every file written holds at least one row.
C25_ReturnsIffMatched ==
    /\ NoEmptyFile
    /\ CallOver =>
           /\ ReturnedAndWrote <=> (AddressColumnPresent /\ SomeActiveVoterMatched)
           /\ ~ReturnedAndWrote => (ret = "None" /\ NothingOut)

\* C25 with the case the statement leaves out: when the reference layer
\* names no reference system the reprojection of the matched voters raises,
\* so a matched voter and an address column give neither dataset nor file.
\* The geocoder returns a dataset and writes the file if and only if there
\* is an address-like column, an active voter matched and the layer has a
\* reference system; without address column or without match it returns
\* None; in no other case does it write a file or report a rate.
C25_ReturnsIffMatchedAndProjected ==
    /\ NoEmptyFile
    /\ CallOver =>
           /\ ReturnedAndWrote <=>
                  (AddressColumnPresent /\ SomeActiveVoterMatched /\ addresses.crs # NoCRS)
           /\ (ret = "None" /\ pc = "done") <=>
                  (~AddressColumnPresent \/ ~SomeActiveVoterMatched)
           /\ (ret = "raised" /\ pc = "error") <=>
                  (AddressColumnPresent /\ SomeActiveVoterMatched /\ addresses.crs = NoCRS)
           /\ ~ReturnedAndWrote => NothingOut

C25_Witness ==
    /\ pc = "done"
    /\ ret = "None"
    /\ AddressColumnPresent
    /\ Len(active_voters) = 2
    /\ Len(addresses.rows) = 2
    /\ ~SomeActiveVoterMatched
    /\ NothingOut

-----------------------------------------------------------------------------
(* Properties of main() of additional_analyses.py *)

\* the stages that report property values: analyses 1 to 4 and the summary
\* report (6)
ReportingStages == { 1, 2, 3, 4, 6 }
ReportedBy(stage) == { n \in DOMAIN a_reports : a_reports[n].stage = stage }
SummaryWritten == 6 \in Range(done)

\* what the parcel joiner and the party analysis pick on the columns of the
\* combined dataset, when there is one
JoinerPick ==
    IF "combined_file" \in missing THEN <<>> ELSE ParvalField(combined_file.columns)

\* C26: every stage that reports property values makes its report on the
\* column that the parcel joiner and the party analysis pick from the same
\* column names, the first whose name holds "parval" or "value"; a stage
\* leaves its report out only when they pick none.
C26_SameValueColumn ==
    \A n \in DOMAIN a_reports : a_reports[n].field = JoinerPick

\* what does hold: the stages agree with the joiner on every dataset whose
\* first column holding "parval" or "value" holds "parval", and on every
\* dataset without such a column
C26_SameWhenNamedParval ==
    (JoinerPick = <<>> \/ IsParvalColumn(JoinerPick[1])) =>
        \A n \in DOMAIN a_reports : a_reports[n].field = JoinerPick

\* a run to the summary report on a dataset on which every stage reported on
\* PARVAL while the joiner picks Land_Value
C26_Witness ==
    /\ SummaryWritten
    /\ JoinerPick = <<"Land_Value">>
    /\ \A stage \in ReportingStages : ReportedBy(stage) # {}
    /\ \A n \in DOMAIN a_reports : a_reports[n].field = <<"PARVAL">>

-----------------------------------------------------------------------------
(* Properties of the combined dataset of spatial_joins.py *)

JoinRunOver == InMain("spatial_joins") /\ main.step \in { "end", "crashed" }
JoinReturned(k) == main.outcomes[k].ret = "done"
BothJoined == \A k \in DOMAIN Counties : JoinReturned(k)
CombinedWritten == main.combined # <<>>
CombinedAnalysisRun ==
    /\ Len(main.outcomes) = Len(Counties) + 1
    /\ main.outcomes[Len(Counties) + 1].ret = "combined"
\* the rows of the combined file that came from county k
RowsOfCounty(k) ==
    { i \in DOMAIN main.combined[1].rows :
        main.combined[1].rows[i]["county"] = Val(Counties[k]) }

\* where the rows of the k-th collected frame start in the combined file
RowOffset(k) == IF k = 1 THEN 0 ELSE Len(main.all_joined_data[1].rows)

\* C27: when the spatial-join run is over, the combined two-county dataset
\* was written and the combined analysis was run if and only if the spatial
\* join of both counties returned a result in this run; a county whose join
\* returned is in the combined dataset with every one of its joined rows
\* even when its party analysis failed, and when only one county's join
\* returned no combined file was written.
C27_CombinedIffBothJoined ==
    JoinRunOver =>
        /\ CombinedWritten <=> BothJoined
        /\ CombinedAnalysisRun <=> BothJoined
        /\ CombinedWritten =>
              /\ Len(main.combined) = 1
              /\ Len(main.combined[1].rows) =
                     Len(main.all_joined_data[1].rows) + Len(main.all_joined_data[2].rows)
              /\ \A k \in DOMAIN Counties :
                  \A i \in DOMAIN main.all_joined_data[k].rows :
                  \A c \in Range(main.all_joined_data[k].columns) :
                     main.combined[1].rows[RowOffset(k) + i][c] =
                         main.all_joined_data[k].rows[i][c]
              /\ \A k \in DOMAIN Counties :
                     Cardinality(RowsOfCounty(k)) = Len(main.inputs[k].voters_file.rows)

\* both joins returned, the party analysis of the first county failed, and
\* the county is in the combined file
C27_Witness ==
    /\ JoinRunOver
    /\ BothJoined
    /\ Reported(1) /\ ~Reported(2)
    /\ CombinedWritten
    /\ RowsOfCounty(1) # {}
    /\ RowsOfCounty(2) # {}

\* only the second county's join returned and nothing was combined
C27_WitnessOneCounty ==
    /\ JoinRunOver
    /\ ~JoinReturned(1) /\ JoinReturned(2)
    /\ ~CombinedWritten

-----------------------------------------------------------------------------
(* Properties of the order of the derived-metric run *)

\* the five analyses and then the summary report (6)
MainOrder == <<1, 2, 3, 4, 5, 6>>
IsPrefix(s, t) == Len(s) <= Len(t) /\ s = SubSeq(t, 1, Len(s))

\* the files a stage writes, in the order it writes them
FilesOf(k) ==
    CASE k = 1 -> <<"analysis_1_urban_rural_classification.gpkg">>
      [] k = 2 -> <<"analysis_2_sample_schools.gpkg", "analysis_2_school_buffers.gpkg">>
      [] k = 3 -> <<"analysis_3_age_demographics.gpkg">>
      [] k = 4 -> <<"analysis_4_county_centers.gpkg", "analysis_4_distance_to_centers.gpkg">>
      [] k = 5 -> <<"analysis_5_registration_patterns.gpkg">>
      [] k = 6 -> <<"spatial_analysis_summary_report.txt">>

RECURSIVE FilesOfAll(_)
FilesOfAll(stages) ==
    IF stages = <<>> THEN <<>>
    ELSE FilesOf(stages[1]) \o FilesOfAll(Tail(stages))

WrittenNames == [n \in DOMAIN a_written |-> a_written[n].name]

CombinedAbsent == "combined_file" \in missing
RunFailed == apc = "failed"

\* the stages that ran are the first ones of the order, none when the file is
\* absent, and the files on disk are those of the stages that returned
RanInOrder ==
    /\ IsPrefix(done, MainOrder)
    /\ WrittenNames = FilesOfAll(done)
    /\ CombinedAbsent => (apc \in { "start", "absent" } /\ done = <<>>)

\* a step of a run that failed or found no file starts nothing and takes no
\* file away; no step ever takes a file away
NothingAfterFailure ==
    /\ (RunFailed \/ apc = "absent") => UNCHANGED <<done, a_written>>
    /\ IsPrefix(a_written, a_written')
    /\ IsPrefix(done, done')
    /\ RunFailed' => (RunFailed \/ done' = done)

\* C28: the derived-metric run executes analysis 1, 2, 3, 4, 5 and then the
\* summary report in that order, each after the one before it returned; it
\* starts none of them when the combined dataset file is absent; once an
\* analysis failed no later analysis and no summary report runs, and the files
\* that the earlier analyses wrote stay as they are.
C28_OrderedUntilFailure == []RanInOrder /\ [][NothingAfterFailure]_vars

\* analysis 3 failed on birth years held as text after analyses 1 and 2
\* returned and wrote their three files
C28_Witness ==
    /\ RunFailed
    /\ done = <<1, 2>>
    /\ WrittenNames = FilesOf(1) \o FilesOf(2)

\* the whole run, to the summary report
C28_WitnessComplete ==
    /\ done = MainOrder
    /\ Len(a_written) = 8

\* the file is absent and the run is over
C28_WitnessAbsent == apc = "absent" /\ a_written = <<>>

-----------------------------------------------------------------------------
(* Properties of the school flags across the radii *)

\* the records whose point analysis 2 took as the place of a school: every
\* fourth of the twenty records of highest density score
TakenAsSchool ==
    { i \in Records :
        /\ RankOf(combined_data, i) <= 20
        /\ (RankOf(combined_data, i) - 1) % 4 = 0 }

\* C29: after analysis 2, for every record within_1000ft_school implies
\* within_2000ft_school, which implies within_5000ft_school, and every voter
\* whose point was taken as the place of a school is flagged at all three
\* radii.
C29_FlagsMonotone ==
    Ran(2) =>
        /\ \A i \in Records :
              /\ Flag(i, 1000) => Flag(i, 2000)
              /\ Flag(i, 2000) => Flag(i, 5000)
        /\ TakenAsSchool # {}
        /\ \A i \in TakenAsSchool : \A r \in Radii : Flag(i, r)
        /\ \A i \in TakenAsSchool :
              \E k \in DOMAIN schools_gdf : schools_gdf[k].geometry = RecordPoint(i)

\* two schools, and records that join the flagged ones at each radius and at
\* none
C29_Witness ==
    /\ Ran(2)
    /\ Cardinality(TakenAsSchool) = 2
    /\ \E i \in Records : Flag(i, 1000) /\ i \notin TakenAsSchool
    /\ \E i \in Records : ~Flag(i, 1000) /\ Flag(i, 2000)
    /\ \E i \in Records : ~Flag(i, 2000) /\ Flag(i, 5000)

-----------------------------------------------------------------------------
(* Properties of the frame the analyses pass along *)

\* the columns each analysis names as its own
OwnColumns(k) ==
    CASE k = 1 -> { "density_score", "urban_rural" }
      [] k = 2 -> { "within_1000ft_school", "within_2000ft_school", "within_5000ft_school" }
      [] k = 3 -> { "age", "age_group" }
      [] k = 4 -> { "distance_to_center", "distance_category" }
      [] k = 5 -> { "registration_date", "registration_year", "registration_period" }

\* analysis k returned in this step
Returned(k) == done' = Append(done, k)

ColumnsAdded == Range(combined_data'.columns) \ Range(combined_data.columns)

\* the frame after the step has the rows of the frame before it, in their
\* order and with every cell they had, and the columns of the frame before
\* it, in their order and followed by columns of the analysis
FrameKept(k) ==
    /\ DOMAIN combined_data'.rows = DOMAIN combined_data.rows
    /\ IsPrefix(combined_data.columns, combined_data'.columns)
    /\ ColumnsAdded # {}
    /\ ColumnsAdded \subseteq OwnColumns(k)
    /\ \A i \in DOMAIN combined_data.rows :
          /\ DOMAIN combined_data'.rows[i] = Range(combined_data'.columns)
          /\ \A c \in Range(combined_data.columns) :
                combined_data'.rows[i][c] = combined_data.rows[i][c]

\* C30: each of the five analyses returns a dataset with the same rows in
\* the same order as its input, adds only its own columns (density_score and
\* urban_rural; within_{r}ft_school; age and age_group; distance_to_center
\* and distance_category; registration_date, registration_year and
\* registration_period) and leaves the value of every column that existed
\* before unchanged.
C30_FrameOfAnalyses == [][\A k \in 1..5 : Returned(k) => FrameKept(k)]_vars

\* the five analyses returned, analysis 2 last, on a dataset of two rows with
\* birth years and registration dates: twelve columns were added and the
\* columns of the file are as they were
C30_Witness ==
    /\ Len(done) = 5
    /\ done[5] = 2
    /\ Len(combined_data.rows) = 2
    /\ Len(combined_data.columns) = Len(combined_file.columns) + 12
    /\ \A i \in DOMAIN combined_file.rows : \A c \in Range(combined_file.columns) :
          combined_data.rows[i][c] = combined_file.rows[i][c]

\* analyses 3 and 5 returned on a dataset without birth years and
\* registration dates, each having added one column
C30_WitnessWithoutDates ==
    /\ done = <<3, 5>>
    /\ combined_data.columns = combined_file.columns \o <<"age_group", "registration_period">>

====
